---- MODULE Spec2Model ----
(***************************************************************************)
(* Relationship graph query and pruning engine of the document explorer:   *)
(* the two request handlers of api_server.ts over the relational store     *)
(* (rdf_triples, entity_aliases, documents, canonical_entities).           *)
(*                                                                         *)
(* Strings are sequences of one-character strings, so that toLowerCase,    *)
(* trim, split, includes and parseInt are computed and not assumed.        *)
(* An absent value (SQL NULL, JS undefined/null) of an optional field is   *)
(* the empty sequence <<>>, a present value v is <<v>>; for strings the    *)
(* empty string stands for undefined wherever the code tests `!x` first.   *)
(***************************************************************************)
EXTENDS Bags, FiniteSets, Integers, Sequences, TLC

(***************************************************************************)
(* Bounds of the model                                                     *)
(***************************************************************************)
MaxTriples == 4
MaxAliasTriples == 2
MaxAliases == 2
MaxDateTriples == 3
MaxBadTriples == 3
MaxInputTriples == 2
MaxSnapshotTriples == 2
MaxTicks == 2
MaxStoredRows == 110000
BatchSize == 10000
MaxLoopTriples == 3
MaxKeywordTriples == 2
MaxVoters == 10
MaxPeerRequests == 2
MaxInFlight == 2
MaxGraphRelationships == 3

(***************************************************************************)
(* Program constants                                                       *)
(***************************************************************************)
MAX_DB_LIMIT == 100000
DEFAULT_LIMIT == 500
MAX_LIMIT == 20000
MAX_CLUSTERS == 50
MAX_KEYWORDS == 20
MAX_KEYWORD_LEN == 100
MAX_CATEGORIES == 50
MAX_CATEGORY_LEN == 100
MIN_YEAR == 1970
MAX_YEAR == 2025
MAX_HOPS == 10
MAX_NAME_LEN == 200

EPSTEIN_NAME == <<"J", " ", "E">>

(***************************************************************************)
(* String primitives                                                       *)
(***************************************************************************)
Min(a, b) == IF a < b THEN a ELSE b
Max(a, b) == IF a > b THEN a ELSE b

IsSpace(c) == c = " "

ToLowerChar(c) ==
  CASE c = "A" -> "a" [] c = "B" -> "b" [] c = "C" -> "c" [] c = "D" -> "d"
    [] c = "E" -> "e" [] c = "J" -> "j" [] c = "K" -> "k" [] c = "M" -> "m"
    [] c = "X" -> "x" [] c = "Y" -> "y"
    [] OTHER -> c

toLowerCase(s) == [i \in 1..Len(s) |-> ToLowerChar(s[i])]

\* Array.prototype.slice(0, n)
Slice0(s, n) == SubSeq(s, 1, Min(Len(s), n))

\* String.prototype.trim
RECURSIVE TrimLeft(_)
TrimLeft(s) == IF s # <<>> /\ IsSpace(Head(s)) THEN TrimLeft(Tail(s)) ELSE s

RECURSIVE TrimRight(_)
TrimRight(s) ==
  IF s # <<>> /\ IsSpace(s[Len(s)]) THEN TrimRight(SubSeq(s, 1, Len(s) - 1)) ELSE s

trim(s) == TrimRight(TrimLeft(s))

\* String.prototype.split(',') : every comma is a separator, empty pieces are kept
RECURSIVE SplitComma(_, _)
SplitComma(s, cur) ==
  IF s = <<>> THEN <<cur>>
  ELSE IF Head(s) = "," THEN <<cur>> \o SplitComma(Tail(s), <<>>)
       ELSE SplitComma(Tail(s), Append(cur, Head(s)))

\* String.prototype.split(/\s+/) : a maximal run of whitespace is one separator;
\* leading or trailing whitespace leaves an empty first or last piece
RECURSIVE SplitWs(_, _, _)
SplitWs(s, cur, inSep) ==
  IF s = <<>> THEN <<cur>>
  ELSE IF IsSpace(Head(s))
       THEN IF inSep THEN SplitWs(Tail(s), cur, TRUE)
            ELSE <<cur>> \o SplitWs(Tail(s), <<>>, TRUE)
       ELSE SplitWs(Tail(s), Append(cur, Head(s)), FALSE)

\* String.prototype.includes
includes(word, keyword) ==
  \E i \in 0..(Len(word) - Len(keyword)) :
    SubSeq(word, i + 1, i + Len(keyword)) = keyword

IsDigit(c) == c \in {"0", "1", "2", "3", "4", "5", "6", "7", "8", "9"}

DigitVal(c) ==
  CASE c = "0" -> 0 [] c = "1" -> 1 [] c = "2" -> 2 [] c = "3" -> 3
    [] c = "4" -> 4 [] c = "5" -> 5 [] c = "6" -> 6 [] c = "7" -> 7
    [] c = "8" -> 8 [] c = "9" -> 9

RECURSIVE DigitPrefix(_)
DigitPrefix(s) ==
  IF s # <<>> /\ IsDigit(Head(s)) THEN <<Head(s)>> \o DigitPrefix(Tail(s)) ELSE <<>>

RECURSIVE DigitsValue(_, _)
DigitsValue(s, acc) ==
  IF s = <<>> THEN acc ELSE DigitsValue(Tail(s), 10 * acc + DigitVal(Head(s)))

\* parseInt : skips leading whitespace, an optional sign, then the longest
\* digit prefix; <<>> is NaN
parseInt(v) ==
  LET t    == TrimLeft(v)
      neg  == t # <<>> /\ Head(t) = "-"
      body == IF t # <<>> /\ Head(t) \in {"-", "+"} THEN Tail(t) ELSE t
      ds   == DigitPrefix(body)
  IN IF ds = <<>> THEN <<>>
     ELSE <<(IF neg THEN -1 ELSE 1) * DigitsValue(ds, 0)>>

\* Number(string) over the alphabet of the model (digits, sign, letters,
\* blanks): the whole trimmed string must be a numeral, "" is 0; <<>> is NaN
Number(v) ==
  LET t    == trim(v)
      neg  == t # <<>> /\ Head(t) = "-"
      body == IF t # <<>> /\ Head(t) \in {"-", "+"} THEN Tail(t) ELSE t
  IN IF t = <<>> THEN <<0>>
     ELSE IF body # <<>> /\ DigitPrefix(body) = body
          THEN <<(IF neg THEN -1 ELSE 1) * DigitsValue(body, 0)>>
          ELSE <<>>

(***************************************************************************)
(* Input validation (api_server.ts, the validate functions)                *)
(***************************************************************************)
\* the upper clamp left out
validateLimit_NoUpperClamp(limit) ==
  LET parsed == parseInt(limit)
  IN IF parsed = <<>> \/ parsed[1] < 1 THEN DEFAULT_LIMIT
     ELSE Max(1, parsed[1])

validateLimit(limit) ==
  LET parsed == parseInt(limit)
  IN IF parsed = <<>> \/ parsed[1] < 1 THEN DEFAULT_LIMIT
     ELSE Min(MAX_LIMIT, Max(1, parsed[1]))

validateClusterIds(clusters) ==
  IF clusters = <<>> THEN <<>>
  ELSE LET nums  == [i \in 1..Len(SplitComma(clusters, <<>>)) |->
                        Number(SplitComma(clusters, <<>>)[i])]
           Ok(n) == n # <<>> /\ n[1] >= 0
           kept  == SelectSeq(nums, Ok)
       IN Slice0([i \in 1..Len(kept) |-> kept[i][1]], MAX_CLUSTERS)

validateCategories(categories) ==
  IF categories = <<>> THEN <<>>
  ELSE LET parts == SplitComma(categories, <<>>)
           trimmed == [i \in 1..Len(parts) |-> trim(parts[i])]
           Ok(c) == Len(c) > 0 /\ Len(c) < MAX_CATEGORY_LEN
       IN Slice0(SelectSeq(trimmed, Ok), MAX_CATEGORIES)

validateYearRange(yearMin, yearMax) ==
  IF yearMin = <<>> /\ yearMax = <<>> THEN <<>>
  ELSE LET min == parseInt(yearMin)
           max == parseInt(yearMax)
       IN IF min = <<>> \/ max = <<>> THEN <<>>
          ELSE IF min[1] < MIN_YEAR \/ max[1] > MAX_YEAR \/ min[1] > max[1] THEN <<>>
          ELSE <<min[1], max[1]>>

validateKeywords(keywords) ==
  IF keywords = <<>> THEN <<>>
  ELSE LET parts == SplitComma(keywords, <<>>)
           norm  == [i \in 1..Len(parts) |-> toLowerCase(trim(parts[i]))]
           Ok(k) == Len(k) > 0 /\ Len(k) < MAX_KEYWORD_LEN
       IN Slice0(SelectSeq(norm, Ok), MAX_KEYWORDS)

\* the range test left out: any numeral is taken as the bound
validateMaxHops_NoRange(maxHops) ==
  IF maxHops = <<>> THEN <<>>
  ELSE IF maxHops = <<"a", "n", "y">> THEN <<>>
  ELSE parseInt(maxHops)

validateMaxHops(maxHops) ==
  IF maxHops = <<>> THEN <<>>
  ELSE IF maxHops = <<"a", "n", "y">> THEN <<>>
  ELSE LET parsed == parseInt(maxHops)
       IN IF parsed = <<>> \/ parsed[1] < 1 \/ parsed[1] > MAX_HOPS THEN <<>>
          ELSE parsed

(***************************************************************************)
(* The store and the request in service                                    *)
(*   rdf_triples        rows in rowid order; id is the AUTOINCREMENT key   *)
(*   entity_aliases     original_name (primary key) -> canonical_name      *)
(*   documents          doc_id -> category                                 *)
(*   canonical_entities canonical_name -> hop_distance_from_principal      *)
(*   request            the route and query string of the request served   *)
(*   locals             the handler's local structures for that request    *)
(*   response           the response sent for it                           *)
(***************************************************************************)
VARIABLES rdf_triples, entity_aliases, documents, canonical_entities,
          request, locals, response, requestCounts, now,
          app, pending, graphData, edit_proposals, edit_votes

vars == <<rdf_triples, entity_aliases, documents, canonical_entities,
          request, locals, response, requestCounts, now,
          app, pending, graphData, edit_proposals, edit_votes>>

store == <<rdf_triples, entity_aliases, documents, canonical_entities>>

\* the rate limiter's map of counters and the clock it reads (Date.now())
limiter == <<requestCounts, now>>

\* the browser: the state of the App component, the fetches awaiting their
\* response, and the memoized graphData of NetworkGraph
client == <<app, pending, graphData>>

\* the community edits database
community == <<edit_proposals, edit_votes>>

\* useState initial values of App (desktop width; stats and showWelcome are
\* not held; the two Sets are held in insertion order)
InitApp ==
  [tagClusters |-> <<>>, relationships |-> <<>>, totalBeforeLimit |-> 0,
   loading |-> TRUE, selectedActor |-> <<>>, actorRelationships |-> <<>>,
   actorTotalBeforeFilter |-> 0, limit |-> 9600, maxHops |-> <<3>>,
   minDensity |-> 50, enabledClusterIds |-> <<>>, enabledCategories |-> <<>>,
   yearRange |-> <<1980, 2025>>, includeUndated |-> FALSE, keywords |-> <<>>]

NoGraph == [nodes |-> <<>>, links |-> <<>>]

InitClient == app = InitApp /\ pending = EmptyBag /\ graphData = NoGraph

InitCommunity == edit_proposals = <<>> /\ edit_votes = {}

\* A TEXT column holding JSON: NULL, a well-formed array, or text that
\* JSON.parse rejects
JsonNull == [kind |-> "null", value |-> <<>>]
JsonArray(v) == [kind |-> "json", value |-> v]
JsonGarbage == [kind |-> "garbage", value |-> <<>>]

\* Stable ascending order of the indices 1..n by integer key
\* (Array.prototype.sort is stable; ORDER BY keeps rowid order among ties)
RECURSIVE InsertIdx(_, _, _)
InsertIdx(out, i, keys) ==
  IF out = <<>> THEN <<i>>
  ELSE IF keys[Head(out)] <= keys[i]
       THEN <<Head(out)>> \o InsertIdx(Tail(out), i, keys)
       ELSE <<i>> \o out

RECURSIVE SortIdx(_, _)
SortIdx(keys, n) ==
  IF n = 0 THEN <<>> ELSE InsertIdx(SortIdx(keys, n - 1), n, keys)

StableSortBy(s, keys) ==
  LET order == SortIdx(keys, Len(s))
  IN [i \in 1..Len(s) |-> s[order[i]]]

SeqToSet(s) == {s[i] : i \in 1..Len(s)}

(***************************************************************************)
(* 4.1 Alias resolution: LEFT JOIN entity_aliases ... COALESCE             *)
(***************************************************************************)
Resolve(aliases, name) ==
  IF name \in DOMAIN aliases THEN aliases[name] ELSE name

\* only the actor column goes through the alias join
ResolveRow_ActorOnly(aliases, rt) ==
  [rt EXCEPT !.actor = Resolve(aliases, rt.actor)]

ResolveRow(aliases, rt) ==
  [rt EXCEPT !.actor = Resolve(aliases, rt.actor),
             !.target = Resolve(aliases, rt.target)]

(***************************************************************************)
(* The SELECT of the global view                                           *)
(***************************************************************************)
\* timestamps are 'YYYY-MM-DD...' strings, held as their year:
\* rt.timestamp >= '1970-01-01' and CAST(substr(rt.timestamp, 1, 4) AS INTEGER)
BaseWhere(rt) == rt.timestamp = <<>> \/ rt.timestamp[1] >= MIN_YEAR

CategoryWhere(rt, categories) ==
  categories = <<>>
  \/ (rt.doc_id \in DOMAIN documents /\ documents[rt.doc_id] \in SeqToSet(categories))

\* includeUndated taken as always true: undated rows pass any year range
YearWhere_KeepUndated(rt, yearRange, includeUndated) ==
  \/ yearRange = <<>>
  \/ rt.timestamp = <<>>
  \/ rt.timestamp[1] >= yearRange[1] /\ rt.timestamp[1] <= yearRange[2]

YearWhere(rt, yearRange, includeUndated) ==
  \/ yearRange = <<>>
  \/ IF rt.timestamp = <<>> THEN includeUndated
     ELSE rt.timestamp[1] >= yearRange[1] /\ rt.timestamp[1] <= yearRange[2]

\* row is the alias-resolved row; a name without a canonical_entities row
\* joins to NULL and NULL <= ? is not true
HopWhere(row, maxHops) ==
  \/ maxHops = <<>>
  \/ /\ row.actor \in DOMAIN canonical_entities
     /\ row.target \in DOMAIN canonical_entities
     /\ canonical_entities[row.actor] <= maxHops[1]
     /\ canonical_entities[row.target] <= maxHops[1]

OrderByTimestamp(rows) ==
  StableSortBy(rows, [i \in 1..Len(rows) |->
                        IF rows[i].timestamp = <<>> THEN -1 ELSE rows[i].timestamp[1]])

SelectRelationships(q) ==
  LET categories     == validateCategories(q.categories)
      yearRange      == validateYearRange(q.yearMin, q.yearMax)
      includeUndated == q.includeUndated # <<"f", "a", "l", "s", "e">>
      maxHops        == validateMaxHops(q.maxHops)
      joined         == [i \in 1..Len(rdf_triples) |->
                           ResolveRow(entity_aliases, rdf_triples[i])]
      Where(row)     == /\ BaseWhere(row)
                        /\ CategoryWhere(row, categories)
                        /\ YearWhere(row, yearRange, includeUndated)
                        /\ HopWhere(row, maxHops)
  IN Slice0(OrderByTimestamp(SelectSeq(joined, Where)), MAX_DB_LIMIT)

(***************************************************************************)
(* In-memory filters: tag clusters, then keywords                          *)
(***************************************************************************)
\* the catch of the per-record parse taken as a pass
ClusterFilter_GarbagePasses(rel, selectedClusterIds) ==
  \/ selectedClusterIds = {}
  \/ rel.top_cluster_ids.kind = "garbage"
  \/ \E i \in 1..Len(rel.top_cluster_ids.value) :
       rel.top_cluster_ids.value[i] \in selectedClusterIds

ClusterFilter(rel, selectedClusterIds) ==
  \/ selectedClusterIds = {}
  \/ /\ rel.top_cluster_ids.kind # "garbage"
     /\ \E i \in 1..Len(rel.top_cluster_ids.value) :
          rel.top_cluster_ids.value[i] \in selectedClusterIds

\* `${rel.actor} ${rel.action} ${rel.target} ${rel.location || ''}`
SearchText(rel) ==
  rel.actor \o <<" ">> \o rel.action \o <<" ">> \o rel.target \o <<" ">>
    \o (IF rel.location = <<>> THEN <<>> ELSE rel.location[1])

\* BM25 in fixed point, unit 1/1000: k1 = 1.2, b = 0.75, avgDocLength = 100,
\* idf = ln 10 = 2.303; numerator and denominator are both scaled by 1000
\* whole-word comparison in place of word.includes(keyword)
TermFrequency_WholeWord(words, keyword) ==
  Cardinality({i \in 1..Len(words) : words[i] = keyword})

TermFrequency(words, keyword) ==
  Cardinality({i \in 1..Len(words) : includes(words[i], keyword)})

RECURSIVE SumScores(_, _, _)
SumScores(keywords, words, docLength) ==
  IF keywords = <<>> THEN 0
  ELSE LET tf == TermFrequency(words, Head(keywords))
           numerator   == tf * 2200
           denominator == 1000 * tf + 300 + 9 * docLength
           term == IF tf = 0 THEN 0
                   ELSE (2303 * numerator) \div denominator
       IN term + SumScores(Tail(keywords), words, docLength)

calculateBM25Score(text, keywords) ==
  IF text = <<>> \/ keywords = <<>> THEN 0
  ELSE LET words == SplitWs(toLowerCase(text), <<>>, FALSE)
       IN SumScores(keywords, words, Len(words))

\* the `if (keywords.length > 0)` guard dropped: an empty list scores 0
KeywordFilter_NoGuard(rel, keywords) ==
  calculateBM25Score(SearchText(rel), keywords) > 0

KeywordFilter(rel, keywords) ==
  keywords = <<>> \/ calculateBM25Score(SearchText(rel), keywords) > 0

FilteredRelationships(all, q) ==
  LET selectedClusterIds == SeqToSet(validateClusterIds(q.clusters))
      keywords == validateKeywords(q.keywords)
      ByCluster(rel) == ClusterFilter(rel, selectedClusterIds)
      ByKeyword(rel) == KeywordFilter(rel, keywords)
  IN SelectSeq(SelectSeq(all, ByCluster), ByKeyword)

(***************************************************************************)
(* 4.4 Adjacency and breadth-first distances from the reference entity     *)
(*     adjacency: name -> neighbours in insertion order (Map of Sets)      *)
(***************************************************************************)
AddNeighbor(adjacency, a, b) ==
  LET withKey == IF a \in DOMAIN adjacency THEN adjacency
                 ELSE adjacency @@ (a :> <<>>)
  IN IF b \in SeqToSet(withKey[a]) THEN withKey
     ELSE [withKey EXCEPT ![a] = Append(@, b)]

RECURSIVE BuildAdjacency(_, _)
BuildAdjacency(rels, adjacency) ==
  IF rels = <<>> THEN adjacency
  ELSE LET rel == Head(rels)
       IN BuildAdjacency(Tail(rels),
            AddNeighbor(AddNeighbor(adjacency, rel.actor, rel.target),
                        rel.target, rel.actor))

EmptyMap == [x \in {} |-> 0]

Adjacency(rels) == BuildAdjacency(rels, EmptyMap)

\* distances.set(neighbor, currentDistance) : the hop is not counted
RECURSIVE VisitNeighbors_NoIncrement(_, _, _, _)
VisitNeighbors_NoIncrement(neighbors, currentDistance, distances, queue) ==
  IF neighbors = <<>> THEN [distances |-> distances, queue |-> queue]
  ELSE LET neighbor == Head(neighbors)
       IN IF neighbor \in DOMAIN distances
          THEN VisitNeighbors_NoIncrement(Tail(neighbors), currentDistance, distances, queue)
          ELSE VisitNeighbors_NoIncrement(Tail(neighbors), currentDistance,
                                         distances @@ (neighbor :> currentDistance),
                                         Append(queue, neighbor))

RECURSIVE VisitNeighbors(_, _, _, _)
VisitNeighbors(neighbors, currentDistance, distances, queue) ==
  IF neighbors = <<>> THEN [distances |-> distances, queue |-> queue]
  ELSE LET neighbor == Head(neighbors)
       IN IF neighbor \in DOMAIN distances
          THEN VisitNeighbors(Tail(neighbors), currentDistance, distances, queue)
          ELSE VisitNeighbors(Tail(neighbors), currentDistance,
                              distances @@ (neighbor :> currentDistance + 1),
                              Append(queue, neighbor))

RECURSIVE BfsLoop(_, _, _)
BfsLoop(adjacency, queue, distances) ==
  IF queue = <<>> THEN distances
  ELSE LET current == Head(queue)
           step == VisitNeighbors(adjacency[current], distances[current],
                                  distances, Tail(queue))
       IN BfsLoop(adjacency, step.queue, step.distances)

\* the distances Map: its domain is the set of reached entities,
\* an entity outside it is at distance Infinity
Distances(rels) ==
  LET adjacency == Adjacency(rels)
  IN IF EPSTEIN_NAME \in DOMAIN adjacency
     THEN BfsLoop(adjacency, <<EPSTEIN_NAME>>, (EPSTEIN_NAME :> 0))
     ELSE EmptyMap

(***************************************************************************)
(* 4.5 Edge bundles, degrees, density and the edge budget                  *)
(***************************************************************************)
\* `${rel.actor}|||${rel.target}`
EdgeKey(rel) == <<rel.actor, rel.target>>

RECURSIVE BuildEdgeMap(_, _)
BuildEdgeMap(rels, edgeMap) ==
  IF rels = <<>> THEN edgeMap
  ELSE LET rel == Head(rels)
           at  == {i \in 1..Len(edgeMap) : edgeMap[i].edgeKey = EdgeKey(rel)}
       IN IF at = {}
          THEN BuildEdgeMap(Tail(rels),
                 Append(edgeMap, [edgeKey |-> EdgeKey(rel),
                                  relationships |-> <<rel>>,
                                  representative |-> rel]))
          ELSE BuildEdgeMap(Tail(rels),
                 [edgeMap EXCEPT ![CHOOSE i \in at : TRUE].relationships = Append(@, rel)])

UniqueEdges(rels) == BuildEdgeMap(rels, <<>>)

\* prunedEdges.flatMap(edge => edge.relationships)
RECURSIVE FlatMapRelationships(_)
FlatMapRelationships(edges) ==
  IF edges = <<>> THEN <<>>
  ELSE Head(edges).relationships \o FlatMapRelationships(Tail(edges))

Bump(nodeDegrees, name) ==
  IF name \in DOMAIN nodeDegrees
  THEN [nodeDegrees EXCEPT ![name] = @ + 1]
  ELSE nodeDegrees @@ (name :> 1)

RECURSIVE CountDegrees(_, _)
CountDegrees(edges, nodeDegrees) ==
  IF edges = <<>> THEN nodeDegrees
  ELSE LET rel == Head(edges).representative
       IN CountDegrees(Tail(edges), Bump(Bump(nodeDegrees, rel.actor), rel.target))

\* degrees counted per underlying triple instead of per unique edge
NodeDegrees_RawTriples(uniqueEdges) ==
  CountDegrees([i \in 1..Len(FlatMapRelationships(uniqueEdges)) |->
                  [representative |-> FlatMapRelationships(uniqueEdges)[i]]],
               EmptyMap)

NodeDegrees(uniqueEdges) == CountDegrees(uniqueEdges, EmptyMap)

Degree(nodeDegrees, name) ==
  IF name \in DOMAIN nodeDegrees THEN nodeDegrees[name] ELSE 0

Density(nodeDegrees, edge) ==
  Degree(nodeDegrees, edge.representative.actor)
    + Degree(nodeDegrees, edge.representative.target)

EdgesWithDensity(uniqueEdges) ==
  LET nodeDegrees == NodeDegrees(uniqueEdges)
  IN [i \in 1..Len(uniqueEdges) |->
        [edgeKey |-> uniqueEdges[i].edgeKey,
         relationships |-> uniqueEdges[i].relationships,
         representative |-> uniqueEdges[i].representative,
         density |-> Density(nodeDegrees, uniqueEdges[i])]]

\* the comparator reversed: a._density - b._density
SortByDensity_Ascending(edges) ==
  StableSortBy(edges, [i \in 1..Len(edges) |-> edges[i].density])

\* edgesWithDensity.sort((a, b) => b._density - a._density)
SortByDensity(edges) ==
  StableSortBy(edges, [i \in 1..Len(edges) |-> 0 - edges[i].density])

\* slice(0, limit + 1) : an off-by-one edge budget
PrunedEdges_OffByOne(uniqueEdges, limit) ==
  Slice0(SortByDensity(EdgesWithDensity(uniqueEdges)), limit + 1)

\* slice(limit) : drops the first `limit` edges instead of keeping them
PrunedEdges_DropFirst(uniqueEdges, limit) ==
  LET sorted == SortByDensity(EdgesWithDensity(uniqueEdges))
  IN SubSeq(sorted, Min(Len(sorted), limit) + 1, Len(sorted))

PrunedEdges(uniqueEdges, limit) ==
  Slice0(SortByDensity(EdgesWithDensity(uniqueEdges)), limit)

(***************************************************************************)
(* GET /api/relationships                                                  *)
(***************************************************************************)
TagsParse(rel) == rel.triple_tags.kind # "garbage"

Tags(rel) == IF rel.triple_tags.kind = "json" THEN rel.triple_tags.value ELSE <<>>

GlobalRelationship(rel) ==
  [id |-> rel.id, doc_id |-> rel.doc_id, timestamp |-> rel.timestamp,
   actor |-> rel.actor, action |-> rel.action, target |-> rel.target,
   location |-> rel.location, top_cluster_ids |-> rel.top_cluster_ids,
   tags |-> Tags(rel)]

InternalError == [status |-> 500, error |-> "An internal error occurred"]

GlobalLocals(q) ==
  LET limit                 == validateLimit(q.limit)
      allRelationships      == SelectRelationships(q)
      filteredRelationships == FilteredRelationships(allRelationships, q)
      uniqueEdges           == UniqueEdges(filteredRelationships)
      prunedEdges           == PrunedEdges(uniqueEdges, limit)
  IN [limit |-> limit,
      allRelationships |-> allRelationships,
      filteredRelationships |-> filteredRelationships,
      distances |-> Distances(filteredRelationships),
      uniqueEdges |-> uniqueEdges,
      prunedEdges |-> prunedEdges,
      prunedRelationships |-> FlatMapRelationships(prunedEdges)]

GlobalResponse(l) ==
  IF \E i \in 1..Len(l.prunedRelationships) : ~TagsParse(l.prunedRelationships[i])
  THEN InternalError
  ELSE [status |-> 200,
        relationships |-> [i \in 1..Len(l.prunedRelationships) |->
                             GlobalRelationship(l.prunedRelationships[i])],
        totalBeforeLimit |-> Len(l.uniqueEdges),
        totalBeforeFilter |-> Len(l.allRelationships)]

(***************************************************************************)
(* GET /api/actor/:name/relationships                                      *)
(***************************************************************************)
\* SELECT original_name ... WHERE canonical_name = ?  UNION
\* SELECT canonical_name ... WHERE original_name = ?  UNION  SELECT ?
AllNames(name) ==
  {o \in DOMAIN entity_aliases : entity_aliases[o] = name}
    \cup (IF name \in DOMAIN entity_aliases THEN {entity_aliases[name]} ELSE {})
    \cup {name}

Touches(rt, allNames) == rt.actor \in allNames \/ rt.target \in allNames

TotalRelationships(allNames) ==
  LET Counted(rt) == Touches(rt, allNames) /\ BaseWhere(rt)
  IN Len(SelectSeq(rdf_triples, Counted))

SelectActorRelationships(allNames, q) ==
  LET categories     == validateCategories(q.categories)
      yearRange      == validateYearRange(q.yearMin, q.yearMax)
      includeUndated == q.includeUndated # <<"f", "a", "l", "s", "e">>
      maxHops        == validateMaxHops(q.maxHops)
      Where(i)       == /\ Touches(rdf_triples[i], allNames)
                        /\ BaseWhere(rdf_triples[i])
                        /\ CategoryWhere(rdf_triples[i], categories)
                        /\ YearWhere(rdf_triples[i], yearRange, includeUndated)
                        /\ HopWhere(ResolveRow(entity_aliases, rdf_triples[i]), maxHops)
      matching       == SelectSeq([i \in 1..Len(rdf_triples) |-> i], Where)
  IN OrderByTimestamp([k \in 1..Len(matching) |->
                         ResolveRow(entity_aliases, rdf_triples[matching[k]])])

ActorRelationship(rel) ==
  [id |-> rel.id, doc_id |-> rel.doc_id, timestamp |-> rel.timestamp,
   actor |-> rel.actor, action |-> rel.action, target |-> rel.target,
   location |-> rel.location, tags |-> Tags(rel)]

ActorLocals(name, q) ==
  LET allNames         == AllNames(name)
      allRelationships == SelectActorRelationships(allNames, q)
  IN [allNames |-> allNames,
      totalRelationships |-> TotalRelationships(allNames),
      allRelationships |-> allRelationships,
      filteredRelationships |-> FilteredRelationships(allRelationships, q)]

ActorResponse(l) ==
  IF \E i \in 1..Len(l.filteredRelationships) : ~TagsParse(l.filteredRelationships[i])
  THEN InternalError
  ELSE [status |-> 200,
        relationships |-> [i \in 1..Len(l.filteredRelationships) |->
                             ActorRelationship(l.filteredRelationships[i])],
        totalBeforeFilter |-> l.totalRelationships]

(***************************************************************************)
(* Requests                                                                *)
(***************************************************************************)
NoRequest == [route |-> "none"]
NoLocals == [route |-> "none"]
NoResponse == [status |-> 0]

Idle == request.route = "none"

Query(limit, clusters, categories, yearMin, yearMax, includeUndated, keywords, maxHops) ==
  [limit |-> limit, clusters |-> clusters, categories |-> categories,
   yearMin |-> yearMin, yearMax |-> yearMax, includeUndated |-> includeUndated,
   keywords |-> keywords, maxHops |-> maxHops]

\* app.get('/api/relationships', ...) : one synchronous pass
GetRelationships(q) ==
  /\ Idle
  /\ request' = [route |-> "relationships", name |-> <<>>, query |-> q]
  /\ locals' = GlobalLocals(q)
  /\ response' = GlobalResponse(GlobalLocals(q))
  /\ UNCHANGED <<client, community, store, limiter>>

\* app.get('/api/actor/:name/relationships', ...)
GetActorRelationships(name, q) ==
  /\ Idle
  /\ request' = [route |-> "actor", name |-> name, query |-> q]
  /\ IF name = <<>> \/ Len(name) > MAX_NAME_LEN
     THEN /\ locals' = NoLocals
          /\ response' = [status |-> 400, error |-> "Invalid actor name"]
     ELSE /\ locals' = ActorLocals(name, q)
          /\ response' = ActorResponse(ActorLocals(name, q))
  /\ UNCHANGED <<client, community, store, limiter>>

\* the response is serialized and every query-scoped structure is discarded
Finish ==
  /\ ~Idle
  /\ request' = NoRequest
  /\ locals' = NoLocals
  /\ response' = NoResponse
  /\ UNCHANGED <<client, community, store, limiter>>

(***************************************************************************)
(* Stores and requests of the model                                        *)
(***************************************************************************)
NameA == <<"A">>
NameB == <<"B">>
NameC == <<"C">>
AliasJE == <<"j", "e">>

Fact(doc_id, timestamp, actor, action, target, location, clusters) ==
  [doc_id |-> doc_id, timestamp |-> timestamp, actor |-> actor,
   action |-> action, target |-> target, location |-> location,
   triple_tags |-> JsonArray(<<"tag">>), top_cluster_ids |-> JsonArray(clusters)]

\* INSERT INTO rdf_triples: the id is the position in rowid order
Rows(facts) ==
  [i \in 1..Len(facts) |->
     [id |-> i, doc_id |-> facts[i].doc_id, timestamp |-> facts[i].timestamp,
      actor |-> facts[i].actor, action |-> facts[i].action,
      target |-> facts[i].target, location |-> facts[i].location,
      triple_tags |-> facts[i].triple_tags,
      top_cluster_ids |-> facts[i].top_cluster_ids]]

FactSeqs(pool, n) == UNION {[1..k -> pool] : k \in 0..n}

\* the offline materialization of hop_distance_from_principal: shortest hop
\* distance from the principal over the whole alias-resolved store
HopDistanceFromPrincipal(triples, aliases) ==
  Distances([i \in 1..Len(triples) |-> ResolveRow(aliases, triples[i])])

Met == <<"m", "e", "t">>

FactPool ==
  { Fact("d1", <<>>, EPSTEIN_NAME, Met, NameA, <<>>, <<1>>),
    Fact("d1", <<>>, EPSTEIN_NAME, Met, NameB, <<>>, <<1>>),
    Fact("d2", <<>>, NameA, <<"x">>, NameB, <<>>, <<2>>),
    Fact("d1", <<>>, NameB, Met, NameA, << <<"M">> >>, <<1>>),
    Fact("d2", <<2003>>, NameB, <<"k", "X">>, NameC, <<>>, <<2, 3>>),
    Fact("d1", <<>>, AliasJE, Met, NameC, <<>>, <<1>>) }

Documents == ("d1" :> <<"e", "m", "a", "i", "l">>) @@ ("d2" :> <<"c", "o", "u", "r", "t">>)

Queries ==
  { Query(limit, clusters, <<>>, <<>>, <<>>, <<>>, keywords, maxHops) :
      limit \in {<<>>, <<"1">>, <<"2">>},
      clusters \in {<<>>, <<"2">>},
      keywords \in {<<>>, <<" ", "X">>},
      maxHops \in {<<>>, <<"1">>, <<"2">>} }

ActorQueries ==
  { Query(<<"1">>, <<>>, <<>>, <<>>, <<>>, <<>>, keywords, maxHops) :
      keywords \in {<<>>, <<" ", "X">>},
      maxHops \in {<<>>, <<"1">>} }

ActorNames == {EPSTEIN_NAME, AliasJE, NameA}

Init ==
  /\ \E facts \in FactSeqs(FactPool, MaxTriples) : rdf_triples = Rows(facts)
  /\ entity_aliases = (AliasJE :> EPSTEIN_NAME)
  /\ documents = Documents
  /\ canonical_entities = HopDistanceFromPrincipal(rdf_triples, entity_aliases)
  /\ request = NoRequest
  /\ locals = NoLocals
  /\ response = NoResponse
  /\ requestCounts = EmptyMap
  /\ now = 0
  /\ InitClient
  /\ InitCommunity

Next ==
  \/ \E q \in Queries : GetRelationships(q)
  \/ \E name \in ActorNames, q \in ActorQueries : GetActorRelationships(name, q)
  \/ Finish

Spec == Init /\ [][Next]_vars

(***************************************************************************)
(* Properties of the global view                                           *)
(***************************************************************************)
GlobalServed == request.route = "relationships" /\ response.status = 200

ActorServed == request.route = "actor" /\ response.status = 200

EdgePairs(rels) == {{rels[i].actor, rels[i].target} : i \in 1..Len(rels)}

RelIds(rels) == {rels[i].id : i \in 1..Len(rels)}

KeptKeys(edges) == {edges[i].edgeKey : i \in 1..Len(edges)}

\* C1: in every global-view response the number of distinct entity pairs
\* among the returned relationships is at most the validated limit
C1_EdgeBudget ==
  GlobalServed =>
    Cardinality(EdgePairs(response.relationships))
      <= validateLimit(request.query.limit)

\* a response in which the budget pruned edges away and is used up exactly
C1_Witness ==
  /\ GlobalServed
  /\ Len(locals.uniqueEdges) > validateLimit(request.query.limit)
  /\ Cardinality(EdgePairs(response.relationships)) = validateLimit(request.query.limit)
  /\ Len(response.relationships) > validateLimit(request.query.limit)

\* C2: for the same filtered triple set, every bundle (and every relationship)
\* kept at the request's limit is also kept at every larger limit
C2_PruningMonotonic ==
  GlobalServed =>
    \A L \in (locals.limit)..(Len(locals.uniqueEdges) + 1) :
      LET larger == PrunedEdges(locals.uniqueEdges, L)
      IN /\ KeptKeys(locals.prunedEdges) \subseteq KeptKeys(larger)
         /\ RelIds(response.relationships) \subseteq RelIds(FlatMapRelationships(larger))

\* limit 1 over at least three bundles, where the density order differs from
\* the discovery order
C2_Witness ==
  /\ GlobalServed
  /\ locals.limit = 1
  /\ Len(locals.uniqueEdges) >= 3
  /\ locals.prunedEdges[1].edgeKey # locals.uniqueEdges[1].edgeKey

\* the response to the request in service with its keyword list emptied
WithoutKeywords ==
  LET q == [request.query EXCEPT !.keywords = <<>>]
  IN IF request.route = "relationships"
     THEN [locals |-> GlobalLocals(q), response |-> GlobalResponse(GlobalLocals(q))]
     ELSE [locals |-> ActorLocals(request.name, q),
           response |-> ActorResponse(ActorLocals(request.name, q))]

KeywordResultIsSubset ==
  /\ WithoutKeywords.response.status = 200
  /\ RelIds(response.relationships) \subseteq RelIds(WithoutKeywords.response.relationships)

\* no two stored triples join the same pair of names in opposite directions
NoOpposedTriples ==
  \A i, j \in 1..Len(rdf_triples) :
    ~(/\ rdf_triples[i].actor # rdf_triples[i].target
      /\ Resolve(entity_aliases, rdf_triples[i].actor) = Resolve(entity_aliases, rdf_triples[j].target)
      /\ Resolve(entity_aliases, rdf_triples[i].target) = Resolve(entity_aliases, rdf_triples[j].actor))

\* C3 (as claimed): in both views the relationships returned with a keyword
\* list are a subset of those returned with the empty list, limit unchanged
\* (read on the stores where ordered and unordered edge keys give the same
\* bundles, so that a violation does not rest on the direction of the key)
C3_KeywordSubset ==
  ((GlobalServed \/ ActorServed) /\ NoOpposedTriples) => KeywordResultIsSubset

\* C3 (amended): the same, in the neighborhood view always and in the global
\* view whenever the limit does not prune the empty-keyword result
C3_KeywordSubsetUnpruned ==
  /\ ActorServed => KeywordResultIsSubset
  /\ (GlobalServed /\ Len(WithoutKeywords.locals.uniqueEdges) <= locals.limit)
       => KeywordResultIsSubset
  /\ GlobalServed =>
       RelIds(locals.filteredRelationships)
         \subseteq RelIds(WithoutKeywords.locals.filteredRelationships)

\* a keyword request whose non-empty result is strictly smaller than the
\* unpruned empty-keyword result
C3_Witness ==
  /\ GlobalServed
  /\ validateKeywords(request.query.keywords) # <<>>
  /\ response.relationships # <<>>
  /\ Len(WithoutKeywords.locals.uniqueEdges) <= locals.limit
  /\ Len(response.relationships) < Len(WithoutKeywords.response.relationships)

\* the triples that survive every filter but the hop bound
OtherFiltersSurvivors ==
  FilteredRelationships(SelectRelationships([request.query EXCEPT !.maxHops = <<>>]),
                        request.query)

FiniteMaxHops == validateMaxHops(request.query.maxHops) # <<>>

\* C4: with a finite maxHops = h every entity in the result is within h hops
\* of the reference entity in the graph of the triples that survived the
\* other filters of the same query
C4_HopWithinBfsDistance ==
  (GlobalServed /\ FiniteMaxHops) =>
    LET h == validateMaxHops(request.query.maxHops)[1]
        d == Distances(OtherFiltersSurvivors)
        Near(name) == name \in DOMAIN d /\ d[name] <= h
    IN \A i \in 1..Len(response.relationships) :
         Near(response.relationships[i].actor) /\ Near(response.relationships[i].target)

\* C5: when the reference entity is absent from the graph of the filtered
\* triples and maxHops is finite, the response is a success with no
\* relationships
C5_AbsentReferenceEmpty ==
  (request.route = "relationships" /\ FiniteMaxHops
     /\ EPSTEIN_NAME \notin DOMAIN Adjacency(OtherFiltersSurvivors))
    => (response.status = 200 /\ response.relationships = <<>>)

Incident(rel, name) == rel.actor = name \/ rel.target = name

\* C6: when the reference entity occurs in the filtered triples, an edge
\* incident to it is among the kept edges
C6_ReferenceRetained ==
  (GlobalServed
     /\ \E i \in 1..Len(locals.filteredRelationships) :
          Incident(locals.filteredRelationships[i], EPSTEIN_NAME))
    => \E j \in 1..Len(locals.prunedEdges) :
          Incident(locals.prunedEdges[j].representative, EPSTEIN_NAME)

\* C7: surviving triples joining the same two entities, in either direction,
\* lie in one bundle, count once in totalBeforeLimit and are kept or pruned
\* together
C7_UnorderedBundles ==
  GlobalServed =>
    LET rels == locals.filteredRelationships
    IN /\ response.totalBeforeLimit = Cardinality(EdgePairs(rels))
       /\ \A i, j \in 1..Len(rels) :
            {rels[i].actor, rels[i].target} = {rels[j].actor, rels[j].target}
              => /\ \E e \in 1..Len(locals.uniqueEdges) :
                      {rels[i].id, rels[j].id}
                        \subseteq RelIds(locals.uniqueEdges[e].relationships)
                 /\ rels[i].id \in RelIds(response.relationships)
                      <=> rels[j].id \in RelIds(response.relationships)

\* the example store [A->B, A->B, B->C] pruned with limit 1
ExampleABC ==
  /\ GlobalServed
  /\ locals.limit = 1
  /\ Len(locals.filteredRelationships) = 3
  /\ \A i \in 1..2 : /\ locals.filteredRelationships[i].actor = NameA
                     /\ locals.filteredRelationships[i].target = NameB
  /\ locals.filteredRelationships[3].actor = NameB
  /\ locals.filteredRelationships[3].target = NameC

DensityOf(actor, target) ==
  LET scored == EdgesWithDensity(locals.uniqueEdges)
  IN scored[CHOOSE i \in 1..Len(scored) : scored[i].edgeKey = <<actor, target>>].density

KeepsBundleAB ==
  /\ KeptKeys(locals.prunedEdges) = {<<NameA, NameB>>}
  /\ Len(response.relationships) = 2
  /\ \A i \in 1..2 : /\ response.relationships[i].actor = NameA
                     /\ response.relationships[i].target = NameB
  /\ response.totalBeforeLimit = 2

\* C8 (as claimed): the A-B bundle is kept because its density is higher
\* than that of B-C; 2 relationships, 2 unique edges
C8_ExampleHigherDensity ==
  ExampleABC => (KeepsBundleAB /\ DensityOf(NameA, NameB) > DensityOf(NameB, NameC))

\* C8 (amended): the A-B bundle is kept although both bundles have density 3,
\* because it was discovered first; 2 relationships, 2 unique edges
C8_ExampleTieBreak ==
  ExampleABC => (/\ KeepsBundleAB
                 /\ DensityOf(NameA, NameB) = 3
                 /\ DensityOf(NameB, NameC) = 3)

C8_Witness == ExampleABC /\ Len(response.relationships) = 2

(***************************************************************************)
(* The alias job (dedupe_with_llm.ts) and alias resolution                 *)
(***************************************************************************)
\* INSERT OR REPLACE INTO entity_aliases (original_name, canonical_name, ...)
InsertOrReplace(aliases, original_name, canonical_name) ==
  (original_name :> canonical_name) @@ aliases

RECURSIVE RunInserts(_, _, _)
RunInserts(aliases, names, canonical) ==
  IF names = <<>> THEN aliases
  ELSE RunInserts(InsertOrReplace(aliases, Head(names), canonical), Tail(names), canonical)

\* createAliases(decision): the job is another process on the same file
WriteAliases(decision) ==
  /\ entity_aliases' = RunInserts(entity_aliases, decision.aliases, decision.canonical)
  /\ UNCHANGED <<client, community, rdf_triples, documents, canonical_entities, request, locals, response, limiter>>

\* createAliases(decision), between two requests of the server
CreateAliases(decision) ==
  /\ Idle
  /\ WriteAliases(decision)

AliasNames == {EPSTEIN_NAME, AliasJE, NameA}

Decisions ==
  { [canonical |-> c, aliases |-> a, reasoning |-> "same person"] :
      c \in AliasNames,
      a \in UNION {[1..k -> AliasNames] : k \in 1..MaxAliases} }

AliasFactPool ==
  { Fact("d1", <<>>, AliasJE, Met, NameA, <<>>, <<1>>),
    Fact("d1", <<>>, EPSTEIN_NAME, Met, NameB, <<>>, <<1>>),
    Fact("d2", <<>>, NameA, <<"x">>, AliasJE, <<>>, <<2>>),
    Fact("d1", <<>>, NameA, Met, NameB, <<>>, <<1>>) }

DefaultQuery == Query(<<>>, <<>>, <<>>, <<>>, <<>>, <<>>, <<>>, <<>>)

InitAlias ==
  /\ \E facts \in FactSeqs(AliasFactPool, MaxAliasTriples) : rdf_triples = Rows(facts)
  /\ entity_aliases = EmptyMap
  /\ documents = Documents
  /\ canonical_entities = HopDistanceFromPrincipal(rdf_triples, entity_aliases)
  /\ request = NoRequest
  /\ locals = NoLocals
  /\ response = NoResponse
  /\ requestCounts = EmptyMap
  /\ now = 0
  /\ InitClient
  /\ InitCommunity

NextAlias ==
  \/ \E decision \in Decisions : CreateAliases(decision)
  \/ GetRelationships(DefaultQuery)
  \/ \E name \in AliasNames, q \in {DefaultQuery} \cup ActorQueries :
       GetActorRelationships(name, q)
  \/ Finish

SpecAlias == InitAlias /\ [][NextAlias]_vars

\* 3. data model: no alias is its own canonical, no canonical is an alias
DataModel(aliases) ==
  \A o \in DOMAIN aliases : aliases[o] # o /\ aliases[o] \notin DOMAIN aliases

\* C9: under an alias table that satisfies the data model, resolution is
\* idempotent, and the actor and target of every returned triple are fixed
\* points of resolution
C9_ResolveIdempotent ==
  DataModel(entity_aliases) =>
    /\ \A x \in AliasNames \cup {NameB} :
         Resolve(entity_aliases, Resolve(entity_aliases, x)) = Resolve(entity_aliases, x)
    /\ (GlobalServed \/ ActorServed) =>
         \A i \in 1..Len(response.relationships) :
           /\ Resolve(entity_aliases, response.relationships[i].actor)
                = response.relationships[i].actor
           /\ Resolve(entity_aliases, response.relationships[i].target)
                = response.relationships[i].target

\* a served global request in which an alias row rewrote a stored target
C9_Witness ==
  /\ DataModel(entity_aliases)
  /\ GlobalServed
  /\ \E i \in 1..Len(response.relationships) :
       \E j \in 1..Len(rdf_triples) :
         /\ rdf_triples[j].id = response.relationships[i].id
         /\ rdf_triples[j].target # response.relationships[i].target

(***************************************************************************)
(* Breadth-first distances                                                 *)
(***************************************************************************)
\* the simple paths of at most n further edges that extend the given paths
RECURSIVE ExtendPaths(_, _, _)
ExtendPaths(adjacency, frontier, n) ==
  IF n = 0 \/ frontier = {} THEN frontier
  ELSE LET next == UNION {{Append(p, v) :
                             v \in SeqToSet(adjacency[p[Len(p)]]) \ SeqToSet(p)} :
                          p \in frontier}
       IN frontier \cup ExtendPaths(adjacency, next, n - 1)

\* all simple paths that start at the reference entity
PathsFromReference ==
  LET adjacency == Adjacency(locals.filteredRelationships)
  IN IF EPSTEIN_NAME \in DOMAIN adjacency
     THEN ExtendPaths(adjacency, {<<EPSTEIN_NAME>>}, Cardinality(DOMAIN adjacency))
     ELSE {}

ReferencePresent ==
  /\ request.route = "relationships"
  /\ EPSTEIN_NAME \in DOMAIN Adjacency(locals.filteredRelationships)

NonDecreasingAlong(p) ==
  \A i \in 1..(Len(p) - 1) : locals.distances[p[i]] <= locals.distances[p[i + 1]]

IsShortest(p) ==
  \A r \in PathsFromReference : r[Len(r)] = p[Len(p)] => Len(r) >= Len(p)

\* C10 (as claimed): the reference entity is at distance 0 and the recorded
\* distances are non-decreasing along every path that starts at it
C10_NonDecreasingOnEveryPath ==
  ReferencePresent =>
    /\ locals.distances[EPSTEIN_NAME] = 0
    /\ \A p \in PathsFromReference : NonDecreasingAlong(p)

\* C10 (amended): the reference entity is at distance 0 and the recorded
\* distances are non-decreasing along every shortest path that starts at it,
\* the last node of a shortest path of k edges being at distance k
C10_NonDecreasingOnShortestPaths ==
  ReferencePresent =>
    /\ locals.distances[EPSTEIN_NAME] = 0
    /\ \A p \in PathsFromReference :
         IsShortest(p) => /\ NonDecreasingAlong(p)
                          /\ locals.distances[p[Len(p)]] = Len(p) - 1

\* a graph with a path from the reference entity that is not a shortest one
\* and along which the recorded distance drops
C10_Witness ==
  /\ ReferencePresent
  /\ \E p \in PathsFromReference : ~IsShortest(p) /\ ~NonDecreasingAlong(p)

(***************************************************************************)
(* Date and category filters (both views)                                  *)
(***************************************************************************)
Court == <<"c", "o", "u", "r", "t">>
False == <<"f", "a", "l", "s", "e">>

DateFactPool ==
  { Fact("d1", <<>>, EPSTEIN_NAME, Met, NameA, <<>>, <<1>>),
    Fact("d2", <<1999>>, NameA, <<"x">>, NameB, <<>>, <<2>>),
    Fact("d2", <<2003>>, NameB, <<"k", "X">>, NameA, <<>>, <<2>>),
    Fact("d1", <<2010>>, EPSTEIN_NAME, Met, NameB, <<>>, <<1>>) }

DateQueries ==
  { Query(<<>>, <<>>, categories, yearMin, yearMax, includeUndated, <<>>, <<>>) :
      categories \in {<<>>, Court},
      yearMin \in {<<>>, <<"2", "0", "0", "0">>},
      yearMax \in {<<>>, <<"2", "0", "0", "5">>, <<"1", "9", "9", "9">>},
      includeUndated \in {<<>>, False} }

DateNames == {EPSTEIN_NAME, NameA}

InitDate ==
  /\ \E facts \in FactSeqs(DateFactPool, MaxDateTriples) : rdf_triples = Rows(facts)
  /\ entity_aliases = (AliasJE :> EPSTEIN_NAME)
  /\ documents = Documents
  /\ canonical_entities = HopDistanceFromPrincipal(rdf_triples, entity_aliases)
  /\ request = NoRequest
  /\ locals = NoLocals
  /\ response = NoResponse
  /\ requestCounts = EmptyMap
  /\ now = 0
  /\ InitClient
  /\ InitCommunity

NextDate ==
  \/ \E q \in DateQueries : GetRelationships(q)
  \/ \E name \in DateNames, q \in DateQueries : GetActorRelationships(name, q)
  \/ Finish

SpecDate == InitDate /\ [][NextDate]_vars

Served == ~Idle /\ response.status = 200

\* the year range the request asks for: both bounds given as numerals with
\* 1970 <= min <= max <= 2025
RequestedYears ==
  LET lo == parseInt(request.query.yearMin)
      hi == parseInt(request.query.yearMax)
  IN IF lo = <<>> \/ hi = <<>> THEN <<>>
     ELSE IF lo[1] < MIN_YEAR \/ hi[1] > MAX_YEAR \/ lo[1] > hi[1] THEN <<>>
     ELSE <<lo[1], hi[1]>>

\* C11: under a valid year range with includeUndated = false, in both views,
\* no returned triple has a null timestamp and every returned triple's year
\* lies within [min, max]
C11_DatedWithinRange ==
  (Served /\ RequestedYears # <<>> /\ request.query.includeUndated = False)
    => \A i \in 1..Len(response.relationships) :
         /\ response.relationships[i].timestamp # <<>>
         /\ response.relationships[i].timestamp[1] >= RequestedYears[1]
         /\ response.relationships[i].timestamp[1] <= RequestedYears[2]

\* both views return a dated triple under such a request while the store
\* holds an undated triple and a triple outside the range
C11_Witness ==
  /\ Served
  /\ RequestedYears # <<>>
  /\ request.query.includeUndated = False
  /\ response.relationships # <<>>
  /\ \E i \in 1..Len(rdf_triples) : rdf_triples[i].timestamp = <<>>
  /\ \E i \in 1..Len(rdf_triples) :
       /\ rdf_triples[i].timestamp # <<>>
       /\ rdf_triples[i].timestamp[1] > RequestedYears[2]
  /\ request.route = "actor"

(***************************************************************************)
(* The neighborhood view and the alias table                               *)
(***************************************************************************)
\* the alias-equivalence set of a name: the name, its canonical name and
\* every original name that maps to that canonical name
EquivalenceSet(name) ==
  LET canonical == Resolve(entity_aliases, name)
  IN {name, canonical}
       \cup {o \in DOMAIN entity_aliases : entity_aliases[o] = canonical}

StoredIds(Keep(_)) == {rdf_triples[i].id : i \in {j \in 1..Len(rdf_triples) : Keep(rdf_triples[j])}}

\* C12: the neighborhood view restricts triples to the full alias-equivalence
\* set of the given name; when the given name is an alias of C, triples
\* recorded under any other alias of C are included
C12_FullEquivalenceSet ==
  (ActorServed /\ DataModel(entity_aliases) /\ request.query = DefaultQuery)
    => LET InSet(rt) == Touches(rt, EquivalenceSet(request.name))
       IN RelIds(response.relationships) = StoredIds(InSet)

\* the triples that pass the cluster, category, date and keyword filters of
\* the request
PassesFilters(rt, q) ==
  /\ BaseWhere(rt)
  /\ CategoryWhere(rt, validateCategories(q.categories))
  /\ YearWhere(rt, validateYearRange(q.yearMin, q.yearMax), q.includeUndated # False)
  /\ ClusterFilter(rt, SeqToSet(validateClusterIds(q.clusters)))
  /\ KeywordFilter(ResolveRow(entity_aliases, rt), validateKeywords(q.keywords))

\* C13: the neighborhood view applies no edge-budget pruning: it returns
\* every triple that touches the alias-equivalence set and passes the
\* cluster, category, date and keyword filters, whatever limit is supplied
\* (stated for requests without a hop bound)
C13_NoPruning ==
  (ActorServed /\ DataModel(entity_aliases) /\ request.query.maxHops = <<>>)
    => LET Matches(rt) == /\ Touches(rt, EquivalenceSet(request.name))
                          /\ PassesFilters(rt, request.query)
       IN RelIds(response.relationships) = StoredIds(Matches)

\* C14: the global-view response reports the pre-prune bundle count
\* (totalBeforeLimit = number of unique edges after filtering) and the raw
\* triple count before any filter (totalBeforeFilter = number of triples in
\* the store, independent of category, date, hop, cluster and keyword filters)
C14_Totals ==
  GlobalServed =>
    /\ response.totalBeforeLimit
         = Cardinality({EdgeKey(locals.filteredRelationships[i]) :
                          i \in 1..Len(locals.filteredRelationships)})
    /\ response.totalBeforeFilter = Len(rdf_triples)

(***************************************************************************)
(* Malformed persisted data                                                *)
(***************************************************************************)
\* a row of rdf_triples whose JSON columns hold any TEXT
StoredFact(doc_id, actor, action, target, triple_tags, top_cluster_ids) ==
  [doc_id |-> doc_id, timestamp |-> <<>>, actor |-> actor,
   action |-> action, target |-> target, location |-> <<>>,
   triple_tags |-> triple_tags, top_cluster_ids |-> top_cluster_ids]

BadFactPool ==
  { StoredFact("d1", EPSTEIN_NAME, Met, NameA, JsonArray(<<"tag">>), JsonArray(<<1>>)),
    StoredFact("d2", NameA, <<"x">>, NameB, JsonArray(<<"tag">>), JsonGarbage),
    StoredFact("d1", NameA, Met, NameB, JsonGarbage, JsonArray(<<2>>)),
    StoredFact("d2", NameB, Met, NameC, JsonNull, JsonNull) }

BadQueries ==
  { Query(limit, clusters, <<>>, <<>>, <<>>, <<>>, <<>>, <<>>) :
      limit \in {<<>>, <<"1">>},
      clusters \in {<<>>, <<"1">>, <<"2">>} }

BadNames == {EPSTEIN_NAME, NameA}

InitBad ==
  /\ \E facts \in FactSeqs(BadFactPool, MaxBadTriples) : rdf_triples = Rows(facts)
  /\ entity_aliases = (AliasJE :> EPSTEIN_NAME)
  /\ documents = Documents
  /\ canonical_entities = HopDistanceFromPrincipal(rdf_triples, entity_aliases)
  /\ request = NoRequest
  /\ locals = NoLocals
  /\ response = NoResponse
  /\ requestCounts = EmptyMap
  /\ now = 0
  /\ InitClient
  /\ InitCommunity

NextBad ==
  \/ \E q \in BadQueries : GetRelationships(q)
  \/ \E name \in BadNames, q \in BadQueries : GetActorRelationships(name, q)
  \/ Finish

SpecBad == InitBad /\ [][NextBad]_vars

\* C15: a single bad record never fails the batch: with a stored triple whose
\* top_cluster_ids or triple_tags cannot be parsed, the query still returns a
\* success response, in both views
C15_BadRecordNeverFails == ~Idle => response.status = 200

EnabledClusters == SeqToSet(validateClusterIds(request.query.clusters))

ClusterIdsOf(rel) ==
  IF rel.top_cluster_ids.kind = "json" THEN SeqToSet(rel.top_cluster_ids.value)
  ELSE {}

\* C16: under a non-empty cluster filter a triple passes iff its
\* top_cluster_ids intersects the enabled set; a triple whose cluster data
\* cannot be parsed is excluded without aborting the query (the request
\* succeeds whenever every stored triple_tags parses); under an empty cluster
\* set every triple passes
C16_ClusterPredicate ==
  (~Idle /\ request.query.keywords = <<>>) =>
    /\ RelIds(locals.filteredRelationships)
         = { locals.allRelationships[i].id :
               i \in { j \in 1..Len(locals.allRelationships) :
                         \/ EnabledClusters = {}
                         \/ /\ locals.allRelationships[j].top_cluster_ids.kind # "garbage"
                            /\ ClusterIdsOf(locals.allRelationships[j])
                                 \cap EnabledClusters # {} } }
    /\ (\A i \in 1..Len(rdf_triples) : TagsParse(rdf_triples[i]))
         => response.status = 200

\* a cluster-filtered request over rows with unparsable cluster data is
\* answered with the rows that intersect the enabled set
C16_Witness ==
  /\ ~Idle
  /\ EnabledClusters # {}
  /\ \E i \in 1..Len(locals.allRelationships) :
       locals.allRelationships[i].top_cluster_ids.kind = "garbage"
  /\ \E i \in 1..Len(locals.allRelationships) :
       locals.allRelationships[i].top_cluster_ids.kind = "null"
  /\ response.status = 200
  /\ response.relationships # <<>>

(***************************************************************************)
(* Malformed and out-of-range request parameters                           *)
(***************************************************************************)
InputFactPool ==
  { Fact("d1", <<>>, EPSTEIN_NAME, Met, NameA, <<>>, <<1>>),
    Fact("d2", <<1999>>, NameA, <<"x">>, NameB, <<>>, <<2>>),
    Fact("d1", <<2003>>, NameB, Met, NameC, <<>>, <<0>>) }

InputLimits ==
  {<<>>, <<"a", "b", "c">>, <<"0">>, <<"-", "3">>, <<"1">>, <<"2", "0", "0", "0", "1">>}

InputQueries ==
  { Query(limit, clusters, categories, yearMin, yearMax, includeUndated, keywords, maxHops) :
      limit \in InputLimits,
      clusters \in {<<>>, <<"x", ",", ",", "-", "1", ",", "2">>},
      categories \in {<<>>, <<" ", ",", " ">>},
      yearMin \in {<<>>, <<"a", "b", "c">>, <<"1", "9", "6", "9">>},
      yearMax \in {<<>>, <<"2", "0", "3", "0">>},
      includeUndated \in {<<>>, <<"m", "a", "y", "b", "e">>},
      keywords \in {<<>>, <<",", ",">>},
      maxHops \in {<<>>, <<"0">>, <<"1", "1">>, <<"a", "b", "c">>} }

InputActorQueries == {q \in InputQueries : q.limit = <<>>}

InitInput ==
  /\ \E facts \in FactSeqs(InputFactPool, MaxInputTriples) : rdf_triples = Rows(facts)
  /\ entity_aliases = (AliasJE :> EPSTEIN_NAME)
  /\ documents = Documents
  /\ canonical_entities = HopDistanceFromPrincipal(rdf_triples, entity_aliases)
  /\ request = NoRequest
  /\ locals = NoLocals
  /\ response = NoResponse
  /\ requestCounts = EmptyMap
  /\ now = 0
  /\ InitClient
  /\ InitCommunity

NextInput ==
  \/ \E q \in InputQueries : GetRelationships(q)
  \/ \E q \in InputActorQueries : GetActorRelationships(NameA, q)
  \/ Finish

SpecInput == InitInput /\ [][NextInput]_vars

\* a hop bound that is not a numeral in 1..10
InvalidHops(v) ==
  parseInt(v) = <<>> \/ parseInt(v)[1] < 1 \/ parseInt(v)[1] > MAX_HOPS

\* category and keyword lists without a usable entry
BlankList(v) == \A i \in 1..Len(v) : v[i] \in {",", " "}

\* every filter value of the request is absent, malformed or out of range
MalformedFilters ==
  /\ BlankList(request.query.categories)
  /\ BlankList(request.query.keywords)
  /\ RequestedYears = <<>>
  /\ InvalidHops(request.query.maxHops)

\* the request with those values left out
IgnoredFilters ==
  [request.query EXCEPT !.categories = <<>>, !.keywords = <<>>, !.yearMin = <<>>,
                        !.yearMax = <<>>, !.includeUndated = <<>>, !.maxHops = <<>>]

RequestedLimit == parseInt(request.query.limit)

\* C18: for every integer request value v the validated limit equals
\* min(20000, max(1, v)): a value below 1 yields 1, a value above 20000
\* yields 20000
C18_LimitClamped ==
  (GlobalServed /\ RequestedLimit # <<>>)
    => locals.limit = Min(MAX_LIMIT, Max(1, RequestedLimit[1]))

\* C18 (amended): the validated limit lies in 1..20000; a value in that range
\* is kept, a value above 20000 yields 20000, a value below 1 yields the
\* default 500
C18_LimitClampedOrDefault ==
  (GlobalServed /\ RequestedLimit # <<>>)
    => /\ locals.limit \in 1..MAX_LIMIT
       /\ locals.limit = IF RequestedLimit[1] < 1 THEN DEFAULT_LIMIT
                         ELSE Min(MAX_LIMIT, RequestedLimit[1])
       /\ Len(locals.prunedEdges) <= locals.limit

\* a request with a limit above the maximum, served with the maximum
C18_Witness ==
  /\ GlobalServed
  /\ RequestedLimit # <<>>
  /\ RequestedLimit[1] > MAX_LIMIT
  /\ locals.limit = MAX_LIMIT
  /\ response.relationships # <<>>

(***************************************************************************)
(* The neighborhood handler statement by statement, with the offline jobs  *)
(* writing to the same database file                                       *)
(***************************************************************************)
AtStatement(pc) == "pc" \in DOMAIN locals /\ locals.pc = pc

\* db.prepare(aliasQuery).all(name, name, name)
ActorAliasQuery(name, q) ==
  /\ Idle
  /\ request' = [route |-> "actor", name |-> name, query |-> q]
  /\ locals' = [pc |-> "aliasQuery", allNames |-> AllNames(name)]
  /\ response' = NoResponse
  /\ UNCHANGED <<client, community, store, limiter>>

\* db.prepare(SELECT COUNT(*) ...).get(...allNames, ...allNames)
ActorCountQuery ==
  /\ AtStatement("aliasQuery")
  /\ locals' = [pc |-> "count", allNames |-> locals.allNames,
                totalRelationships |-> TotalRelationships(locals.allNames)]
  /\ UNCHANGED <<client, community, store, limiter, request, response>>

\* db.prepare(query).all(...), the in-memory filters and res.json
ActorSelectAndRespond ==
  /\ AtStatement("count")
  /\ LET allRelationships == SelectActorRelationships(locals.allNames, request.query)
         l == [pc |-> "done", allNames |-> locals.allNames,
               totalRelationships |-> locals.totalRelationships,
               allRelationships |-> allRelationships,
               filteredRelationships |->
                 FilteredRelationships(allRelationships, request.query)]
     IN /\ locals' = l
        /\ response' = ActorResponse(l)
  /\ UNCHANGED <<client, community, store, limiter, request>>

\* the analysis pipeline commits a triple of a newly analysed document
InsertTriple(fact) ==
  /\ Len(rdf_triples) < MaxSnapshotTriples
  /\ rdf_triples' = Append(rdf_triples,
                           [Rows(<<fact>>)[1] EXCEPT !.id = Len(rdf_triples) + 1])
  /\ UNCHANGED <<client, community, entity_aliases, documents, canonical_entities, request, locals,
                 response, limiter>>

\* the pipeline writes JSON.stringify(tags) and leaves top_cluster_ids NULL
SnapshotFactPool ==
  { StoredFact("d1", EPSTEIN_NAME, Met, NameA, JsonArray(<<"tag">>), JsonNull),
    StoredFact("d2", NameA, <<"x">>, NameB, JsonArray(<<"tag">>), JsonNull),
    StoredFact("d1", AliasJE, Met, NameB, JsonArray(<<"tag">>), JsonNull) }

SnapshotDecisions ==
  { [canonical |-> EPSTEIN_NAME, aliases |-> <<AliasJE>>, reasoning |-> "same person"],
    [canonical |-> NameA, aliases |-> <<NameB>>, reasoning |-> "same person"] }

SnapshotNames == {EPSTEIN_NAME, NameA}

InitSnapshot ==
  /\ rdf_triples = <<>>
  /\ entity_aliases = EmptyMap
  /\ documents = Documents
  /\ canonical_entities = EmptyMap
  /\ request = NoRequest
  /\ locals = NoLocals
  /\ response = NoResponse
  /\ requestCounts = EmptyMap
  /\ now = 0
  /\ InitClient
  /\ InitCommunity

NextSnapshot ==
  \/ \E fact \in SnapshotFactPool : InsertTriple(fact)
  \/ \E decision \in SnapshotDecisions : WriteAliases(decision)
  \/ \E name \in SnapshotNames : ActorAliasQuery(name, DefaultQuery)
  \/ ActorCountQuery
  \/ ActorSelectAndRespond
  \/ GetRelationships(DefaultQuery)
  \/ Finish

SpecSnapshot == InitSnapshot /\ [][NextSnapshot]_vars

\* C19: every query observes one snapshot of the store: all values of one
\* response are computed from the same store state, so the number of
\* relationships returned by the neighborhood view never exceeds
\* totalBeforeFilter
C19_SnapshotConsistent ==
  ActorServed => Len(response.relationships) <= response.totalBeforeFilter

(***************************************************************************)
(* The rate limiting middleware in front of the global view                *)
(***************************************************************************)
RATE_LIMIT_WINDOW == 15 * 60 * 1000
RATE_LIMIT_MAX_REQUESTS == 1000

TooManyRequests ==
  [status |-> 429, error |-> "Too many requests, please try again later"]

\* a limiter that tests the counter with > and so admits one request more
RateLimit_OffByOne(counts, ip, t) ==
  IF ip \notin DOMAIN counts \/ t > counts[ip].resetTime
  THEN [counts |-> (ip :> [count |-> 1, resetTime |-> t + RATE_LIMIT_WINDOW]) @@ counts,
        next |-> TRUE]
  ELSE IF counts[ip].count > RATE_LIMIT_MAX_REQUESTS
  THEN [counts |-> counts, next |-> FALSE]
  ELSE [counts |-> [counts EXCEPT ![ip].count = @ + 1], next |-> TRUE]

\* app.use((req, res, next) => ...): the new map and whether next() is called
RateLimit(counts, ip, t) ==
  IF ip \notin DOMAIN counts \/ t > counts[ip].resetTime
  THEN [counts |-> (ip :> [count |-> 1, resetTime |-> t + RATE_LIMIT_WINDOW]) @@ counts,
        next |-> TRUE]
  ELSE IF counts[ip].count >= RATE_LIMIT_MAX_REQUESTS
  THEN [counts |-> counts, next |-> FALSE]
  ELSE [counts |-> [counts EXCEPT ![ip].count = @ + 1], next |-> TRUE]

\* a handler that keeps the structures of the request before
RequestRelationships_Cached(ip, q) ==
  LET m == RateLimit(requestCounts, ip, now)
      l == IF "allRelationships" \in DOMAIN locals THEN locals ELSE GlobalLocals(q)
  IN /\ requestCounts' = m.counts
     /\ request' = [route |-> "relationships", name |-> <<>>, query |-> q, ip |-> ip]
     /\ IF m.next
        THEN locals' = l /\ response' = GlobalResponse(l)
        ELSE locals' = NoLocals /\ response' = TooManyRequests
     /\ UNCHANGED <<client, community, store, now>>

\* a request of the global view through the middleware and the handler
RequestRelationships(ip, q) ==
  LET m == RateLimit(requestCounts, ip, now)
  IN /\ requestCounts' = m.counts
     /\ request' = [route |-> "relationships", name |-> <<>>, query |-> q, ip |-> ip]
     /\ IF m.next
        THEN locals' = GlobalLocals(q) /\ response' = GlobalResponse(GlobalLocals(q))
        ELSE locals' = NoLocals /\ response' = TooManyRequests
     /\ UNCHANGED <<client, community, store, now>>

\* Date.now() advances by a millisecond or by the length of a window
Tick(d) ==
  /\ (now % RATE_LIMIT_WINDOW) + (now \div RATE_LIMIT_WINDOW) < MaxTicks
  /\ now' = now + d
  /\ UNCHANGED <<client, community, store, request, locals, response, requestCounts>>

Ips == {"10.0.0.1"}

RateQueries ==
  { Query(<<>>, <<>>, <<>>, <<>>, <<>>, <<>>, keywords, <<>>) :
      keywords \in {<<>>, <<" ", "X">>} }

InitRate ==
  /\ rdf_triples = Rows(<<Fact("d1", <<>>, EPSTEIN_NAME, Met, NameA, <<>>, <<1>>),
                          Fact("d2", <<>>, NameA, <<"x">>, NameB, <<>>, <<2>>)>>)
  /\ entity_aliases = (AliasJE :> EPSTEIN_NAME)
  /\ documents = Documents
  /\ canonical_entities = HopDistanceFromPrincipal(rdf_triples, entity_aliases)
  /\ request = NoRequest
  /\ locals = NoLocals
  /\ response = NoResponse
  /\ requestCounts = EmptyMap
  /\ now = 0
  /\ InitClient
  /\ InitCommunity

NextRate ==
  \/ \E ip \in Ips, q \in RateQueries : RequestRelationships(ip, q)
  \/ \E d \in {1, RATE_LIMIT_WINDOW} : Tick(d)

SpecRate == InitRate /\ [][NextRate]_vars

InsertBatch(fact) ==
  /\ Idle
  /\ BagCardinality(rdf_triples) + BatchSize <= MaxStoredRows
  /\ rdf_triples' = rdf_triples (+) (fact :> BatchSize)
  /\ UNCHANGED <<client, community, entity_aliases, documents, canonical_entities,
                 request, locals, response, limiter>>

\* rows returned by the SELECT of the global view: ... ORDER BY ... LIMIT ?
GlobalRowCount(q) ==
  LET matching == {rt \in DOMAIN rdf_triples :
                     /\ BaseWhere(rt)
                     /\ CategoryWhere(rt, validateCategories(q.categories))
                     /\ YearWhere(rt, validateYearRange(q.yearMin, q.yearMax),
                                  q.includeUndated # <<"f", "a", "l", "s", "e">>)
                     /\ HopWhere(ResolveRow(entity_aliases, rt), validateMaxHops(q.maxHops))}
  IN Min(BagCardinality([rt \in matching |-> rdf_triples[rt]]), MAX_DB_LIMIT)

\* rows returned by the SELECT of the neighborhood view: ... ORDER BY rt.timestamp
ActorRowCount(allNames, q) ==
  LET matching == {rt \in DOMAIN rdf_triples :
                     /\ Touches(rt, allNames)
                     /\ BaseWhere(rt)
                     /\ CategoryWhere(rt, validateCategories(q.categories))
                     /\ YearWhere(rt, validateYearRange(q.yearMin, q.yearMax),
                                  q.includeUndated # <<"f", "a", "l", "s", "e">>)
                     /\ HopWhere(ResolveRow(entity_aliases, rt), validateMaxHops(q.maxHops))}
  IN BagCardinality([rt \in matching |-> rdf_triples[rt]])

\* the global handler up to allRelationships, by its row count
MaterializeRelationships(q) ==
  /\ Idle
  /\ request' = [route |-> "relationships", name |-> <<>>, query |-> q]
  /\ locals' = [materialized |-> GlobalRowCount(q)]
  /\ response' = [status |-> 200, totalBeforeFilter |-> GlobalRowCount(q)]
  /\ UNCHANGED <<client, community, store, limiter>>

\* the neighborhood handler up to allRelationships, by its row count
MaterializeActorRelationships(name, q) ==
  /\ Idle
  /\ request' = [route |-> "actor", name |-> name, query |-> q]
  /\ locals' = [materialized |-> ActorRowCount(AllNames(name), q)]
  /\ response' = [status |-> 200]
  /\ UNCHANGED <<client, community, store, limiter>>

RowFactPool ==
  { Fact("d1", <<>>, EPSTEIN_NAME, Met, NameA, <<>>, <<1>>),
    Fact("d2", <<2003>>, NameA, <<"x">>, NameB, <<>>, <<2>>) }

RowQueries == {DefaultQuery, Query(<<>>, <<>>, Court, <<>>, <<>>, <<>>, <<>>, <<>>)}

InitRows ==
  /\ rdf_triples = EmptyBag
  /\ entity_aliases = (AliasJE :> EPSTEIN_NAME)
  /\ documents = Documents
  /\ canonical_entities = EmptyMap
  /\ request = NoRequest
  /\ locals = NoLocals
  /\ response = NoResponse
  /\ requestCounts = EmptyMap
  /\ now = 0
  /\ InitClient
  /\ InitCommunity

NextRows ==
  \/ \E fact \in RowFactPool : InsertBatch(fact)
  \/ \E q \in RowQueries : MaterializeRelationships(q)
  \/ \E name \in {EPSTEIN_NAME, NameA}, q \in RowQueries :
       MaterializeActorRelationships(name, q)
  \/ Finish

SpecRows == InitRows /\ [][NextRows]_vars

\* C21: an upper bound of 100,000 raw rows per query is enforced before any
\* in-memory filtering or graph construction: no query, global or
\* neighborhood, materializes more than 100,000 triples from the store
C21_RowBound == ~Idle => locals.materialized <= MAX_DB_LIMIT

(***************************************************************************)
(* Density order and degrees                                               *)
(***************************************************************************)
\* the bundles of the request in discovery order, with their density scores
ScoredBundles == EdgesWithDensity(locals.uniqueEdges)

KeptBundle(i) ==
  \E k \in 1..Len(locals.prunedEdges) :
    locals.prunedEdges[k].edgeKey = ScoredBundles[i].edgeKey

RECURSIVE SumOfSizes(_)
SumOfSizes(edges) ==
  IF edges = <<>> THEN 0
  ELSE Len(Head(edges).relationships) + SumOfSizes(Tail(edges))

\* C22: the global view keeps exactly the first min(limit, n) bundles of the
\* order 'density descending, ties in discovery order' and returns all
\* underlying triples of those bundles and no others
C22_DensityOrderPrefix ==
  GlobalServed =>
    LET n == Len(ScoredBundles)
    IN /\ Len(locals.prunedEdges) = Min(locals.limit, n)
       /\ \A i, j \in 1..n :
            (KeptBundle(i) /\ ~KeptBundle(j))
              => ScoredBundles[j].density <= ScoredBundles[i].density
       /\ \A i, j \in 1..n :
            (i < j /\ ScoredBundles[i].density = ScoredBundles[j].density /\ KeptBundle(j))
              => KeptBundle(i)
       /\ Len(response.relationships) = SumOfSizes(locals.prunedEdges)
       /\ RelIds(response.relationships)
            = UNION { RelIds(ScoredBundles[i].relationships) :
                        i \in {k \in 1..n : KeptBundle(k)} }

\* a pruned request with a kept bundle of two triples, a pruned bundle of
\* lower density and a pruned bundle that ties with a kept one
C22_Witness ==
  /\ GlobalServed
  /\ Len(locals.prunedEdges) < Len(ScoredBundles)
  /\ \E k \in 1..Len(locals.prunedEdges) : Len(locals.prunedEdges[k].relationships) = 2
  /\ \E i, j \in 1..Len(ScoredBundles) :
       KeptBundle(i) /\ ~KeptBundle(j) /\ ScoredBundles[j].density < ScoredBundles[i].density
  /\ \E i, j \in 1..Len(ScoredBundles) :
       KeptBundle(i) /\ ~KeptBundle(j) /\ ScoredBundles[j].density = ScoredBundles[i].density

LoopFactPool ==
  { Fact("d1", <<>>, NameB, Met, NameC, <<>>, <<1>>),
    Fact("d2", <<>>, NameA, <<"x">>, NameA, <<>>, <<2>>),
    Fact("d1", <<>>, NameA, Met, NameB, <<>>, <<1>>) }

LoopQueries ==
  { Query(limit, <<>>, <<>>, <<>>, <<>>, <<>>, <<>>, <<>>) : limit \in {<<>>, <<"1">>} }

InitLoop ==
  /\ \E facts \in FactSeqs(LoopFactPool, MaxLoopTriples) : rdf_triples = Rows(facts)
  /\ entity_aliases = EmptyMap
  /\ documents = Documents
  /\ canonical_entities = HopDistanceFromPrincipal(rdf_triples, entity_aliases)
  /\ request = NoRequest
  /\ locals = NoLocals
  /\ response = NoResponse
  /\ requestCounts = EmptyMap
  /\ now = 0
  /\ InitClient
  /\ InitCommunity

NextLoop ==
  \/ \E q \in LoopQueries : GetRelationships(q)
  \/ Finish

SpecLoop == InitLoop /\ [][NextLoop]_vars

\* the bundles that touch an entity
BundlesTouching(name) ==
  {i \in 1..Len(locals.uniqueEdges) :
     \/ locals.uniqueEdges[i].representative.actor = name
     \/ locals.uniqueEdges[i].representative.target = name}

\* C23: each entity's degree equals the number of distinct bundles that touch
\* it, independent of the bundles' sizes and also when a bundle is a
\* self-loop, and each bundle's density score equals the sum of the degrees
\* of its two endpoints
C23_DegreeCountsBundles ==
  GlobalServed =>
    /\ \A name \in {NameA, NameB, NameC} :
         Degree(NodeDegrees(locals.uniqueEdges), name)
           = Cardinality(BundlesTouching(name))
    /\ \A i \in 1..Len(ScoredBundles) :
         ScoredBundles[i].density
           = Cardinality(BundlesTouching(ScoredBundles[i].representative.actor))
               + Cardinality(BundlesTouching(ScoredBundles[i].representative.target))

(***************************************************************************)
(* Keyword matching                                                        *)
(***************************************************************************)
KeywordFactPool ==
  { Fact("d1", <<>>, EPSTEIN_NAME, Met, NameA, <<>>, <<1>>),
    Fact("d2", <<>>, NameB, <<"k", "X">>, NameC, <<>>, <<2>>),
    Fact("d1", <<>>, NameA, Met, NameC, << <<"M", " ", "x">> >>, <<1>>),
    Fact("d2", <<>>, NameC, <<"j", " ", " ", "e">>, NameB, <<>>, <<2>>) }

KeywordQueries ==
  { Query(<<>>, <<>>, <<>>, <<>>, <<>>, <<>>, keywords, <<>>) :
      keywords \in { <<"x">>, <<" ", "X", ",", "m", "e", "t">>, <<"j", " ", "e">>,
                     <<"z", "z">>, <<"E">>, <<"z", ",", "k", "x">> } }

InitKeyword ==
  /\ \E facts \in FactSeqs(KeywordFactPool, MaxKeywordTriples) : rdf_triples = Rows(facts)
  /\ entity_aliases = EmptyMap
  /\ documents = Documents
  /\ canonical_entities = HopDistanceFromPrincipal(rdf_triples, entity_aliases)
  /\ request = NoRequest
  /\ locals = NoLocals
  /\ response = NoResponse
  /\ requestCounts = EmptyMap
  /\ now = 0
  /\ InitClient
  /\ InitCommunity

NextKeyword ==
  \/ \E q \in KeywordQueries : GetRelationships(q)
  \/ \E name \in {NameA, NameC}, q \in KeywordQueries : GetActorRelationships(name, q)
  \/ Finish

SpecKeyword == InitKeyword /\ [][NextKeyword]_vars

\* the whitespace-delimited tokens of a text: its maximal runs without blanks
Tokens(text) ==
  { SubSeq(text, a, b) : <<a, b>> \in
      { p \in (1..Len(text)) \X (1..Len(text)) :
          /\ p[1] <= p[2]
          /\ \A i \in p[1]..p[2] : ~IsSpace(text[i])
          /\ (p[1] = 1 \/ IsSpace(text[p[1] - 1]))
          /\ (p[2] = Len(text) \/ IsSpace(text[p[2] + 1])) } }

IsSubstring(k, w) ==
  \E a \in 1..Len(w), b \in 1..Len(w) : SubSeq(w, a, b) = k

\* at least one keyword is a substring of at least one token of the
\* lower-cased text 'actor action target location'
KeywordMatches(rel, keywordList) ==
  LET text == toLowerCase(rel.actor \o <<" ">> \o rel.action \o <<" ">> \o rel.target
                            \o <<" ">> \o (IF rel.location = <<>> THEN <<>>
                                           ELSE rel.location[1]))
  IN \E i \in 1..Len(keywordList) : \E w \in Tokens(text) :
       IsSubstring(keywordList[i], w)

\* C24: with a non-empty keyword list a triple is retained iff at least one
\* keyword is a substring of at least one whitespace-delimited token of the
\* lower-cased text; equivalently its BM25 score is strictly positive, and a
\* triple in which no keyword matches scores exactly 0
C24_KeywordTokenMatch ==
  (Served /\ validateKeywords(request.query.keywords) # <<>>) =>
    LET keywordList == validateKeywords(request.query.keywords)
    IN \A i \in 1..Len(locals.allRelationships) :
         LET rel == locals.allRelationships[i]
             score == calculateBM25Score(SearchText(rel), keywordList)
         IN /\ (rel.id \in RelIds(locals.filteredRelationships))
                 <=> KeywordMatches(rel, keywordList)
            /\ score > 0 <=> KeywordMatches(rel, keywordList)
            /\ ~KeywordMatches(rel, keywordList) => score = 0

\* a request whose keyword lies inside a longer token of one triple and in
\* no token of the other: the first is retained, the second is dropped
C24_Witness ==
  /\ Served
  /\ request.route = "relationships"
  /\ request.query.keywords = <<"x">>
  /\ Len(locals.allRelationships) = 2
  /\ Len(locals.filteredRelationships) = 1
  /\ locals.filteredRelationships[1].action = <<"k", "X">>

(***************************************************************************)
(* Shape of the alias table                                                *)
(***************************************************************************)
\* C25: after any sequence of createAliases operations no original_name is
\* its own canonical_name and no canonical_name is also an original_name, so
\* resolving a name twice gives what resolving it once gives
C25_AliasTableAcyclic ==
  /\ \A original \in DOMAIN entity_aliases :
       /\ entity_aliases[original] # original
       /\ \A other \in DOMAIN entity_aliases : entity_aliases[other] # original
  /\ \A x \in AliasNames :
       Resolve(entity_aliases, Resolve(entity_aliases, x)) = Resolve(entity_aliases, x)

(***************************************************************************)
(* Community edits: votes and proposal status                              *)
(***************************************************************************)
\* net_score INTEGER GENERATED ALWAYS AS (upvotes - downvotes) STORED
net_score(proposal) == proposal.upvotes - proposal.downvotes

ABS(n) == IF n < 0 THEN 0 - n ELSE n

\* INSERT INTO edit_proposals: status, upvotes and downvotes take their defaults
SubmitProposal ==
  /\ edit_proposals = <<>>
  /\ edit_proposals' = Append(edit_proposals,
       [id |-> Len(edit_proposals) + 1, status |-> "pending", upvotes |-> 0, downvotes |-> 0])
  /\ UNCHANGED <<edit_votes, client, store, limiter, request, locals, response>>

\* trigger update_edit_vote_counts: recount the votes of the proposal
update_edit_vote_counts(proposal, votes) ==
  [proposal EXCEPT
     !.upvotes = Cardinality({v \in votes : v.edit_proposal_id = proposal.id /\ v.vote = 1}),
     !.downvotes = Cardinality({v \in votes : v.edit_proposal_id = proposal.id /\ v.vote = -1})]

\* trigger update_edit_status: only a pending proposal is re-evaluated
update_edit_status(proposal) ==
  IF proposal.status = "pending"
  THEN [proposal EXCEPT !.status =
          IF net_score(proposal) >= 5 THEN "accepted"
          ELSE IF net_score(proposal) <= -3 THEN "rejected"
          ELSE IF (proposal.upvotes + proposal.downvotes) >= 10 /\ ABS(net_score(proposal)) < 3
               THEN "disputed"
          ELSE "pending"]
  ELSE proposal

\* INSERT INTO edit_votes, with the triggers it fires.  Fingerprints are
\* taken in increasing order: which fingerprint votes has no effect on the counts.
InsertVote(id, fingerprint, vote) ==
  /\ id \in 1..Len(edit_proposals)
  /\ ~\E v \in edit_votes : v.edit_proposal_id = id /\ v.voter_fingerprint = fingerprint
  /\ fingerprint = Cardinality({v \in edit_votes : v.edit_proposal_id = id}) + 1
  /\ edit_votes' = edit_votes \cup
       {[edit_proposal_id |-> id, voter_fingerprint |-> fingerprint, vote |-> vote]}
  /\ edit_proposals' = [edit_proposals EXCEPT
       ![id] = update_edit_status(update_edit_vote_counts(edit_proposals[id], edit_votes'))]
  /\ UNCHANGED <<client, store, limiter, request, locals, response>>

InitVotes ==
  /\ rdf_triples = <<>>
  /\ entity_aliases = EmptyMap
  /\ documents = Documents
  /\ canonical_entities = EmptyMap
  /\ request = NoRequest
  /\ locals = NoLocals
  /\ response = NoResponse
  /\ requestCounts = EmptyMap
  /\ now = 0
  /\ InitClient
  /\ InitCommunity

NextVotes ==
  \/ SubmitProposal
  \/ \E id \in {1}, fingerprint \in 1..MaxVoters, vote \in {-1, 1} :
       InsertVote(id, fingerprint, vote)

SpecVotes == InitVotes /\ [][NextVotes]_vars

\* C26: after any sequence of inserted votes a proposal with net_score >= 5
\* is accepted, one with net_score <= -3 is rejected, and one with at least
\* 10 votes and |net_score| < 3 is disputed
C26_StatusFollowsThresholds ==
  \A i \in 1..Len(edit_proposals) :
    LET proposal == edit_proposals[i]
    IN /\ net_score(proposal) >= 5 => proposal.status = "accepted"
       /\ net_score(proposal) <= -3 => proposal.status = "rejected"
       /\ ((proposal.upvotes + proposal.downvotes) >= 10 /\ ABS(net_score(proposal)) < 3)
            => proposal.status = "disputed"

(***************************************************************************)
(* The rate limiter with two clients                                       *)
(***************************************************************************)
PeerIp == "10.0.0.2"

PeerIps == Ips \cup {PeerIp}

\* the second client sends only a few requests in each of its windows
PeerRequest(q) ==
  /\ (PeerIp \in DOMAIN requestCounts /\ now <= requestCounts[PeerIp].resetTime)
       => requestCounts[PeerIp].count < MaxPeerRequests
  /\ RequestRelationships(PeerIp, q)

NextPeers ==
  \/ \E ip \in Ips : RequestRelationships(ip, DefaultQuery)
  \/ PeerRequest(DefaultQuery)
  \/ \E d \in {1, RATE_LIMIT_WINDOW} : Tick(d)

SpecPeers == InitRate /\ [][NextPeers]_vars

\* C27: for every client IP a window admits at most 1000 requests; a further
\* request in the window is answered 429 and leaves the IP's counter and
\* resetTime unchanged; the first request after resetTime is admitted and
\* opens a new window with count 1 (stated for every request step; no
\* request changes the entry of another IP, and time passing changes none)
C27_RateLimiterBound ==
  [][ /\ \A ip \in DOMAIN requestCounts' : requestCounts'[ip].count <= RATE_LIMIT_MAX_REQUESTS
      /\ now' # now => requestCounts' = requestCounts
      /\ (now' = now /\ request'.route = "relationships") =>
           LET ip == request'.ip
               open == ip \in DOMAIN requestCounts /\ now <= requestCounts[ip].resetTime
           IN /\ \A other \in PeerIps \ {ip} :
                   /\ other \in DOMAIN requestCounts' <=> other \in DOMAIN requestCounts
                   /\ other \in DOMAIN requestCounts => requestCounts'[other] = requestCounts[other]
              /\ ~open =>
                   /\ response'.status # 429
                   /\ requestCounts'[ip] = [count |-> 1, resetTime |-> now + RATE_LIMIT_WINDOW]
              /\ (open /\ requestCounts[ip].count < RATE_LIMIT_MAX_REQUESTS) =>
                   /\ response'.status # 429
                   /\ requestCounts'[ip] = [count |-> requestCounts[ip].count + 1,
                                            resetTime |-> requestCounts[ip].resetTime]
              /\ (open /\ requestCounts[ip].count >= RATE_LIMIT_MAX_REQUESTS) =>
                   /\ response'.status = 429
                   /\ requestCounts'[ip] = requestCounts[ip]
    ]_vars

\* a client answered 429 in a full window while the other client, whose
\* window opened later, has been admitted
C27_Witness ==
  /\ request.route = "relationships"
  /\ request.ip \in Ips
  /\ response.status = 429
  /\ requestCounts[request.ip].count = RATE_LIMIT_MAX_REQUESTS
  /\ now <= requestCounts[request.ip].resetTime
  /\ PeerIp \in DOMAIN requestCounts
  /\ requestCounts[PeerIp].count = 1
  /\ requestCounts[PeerIp].resetTime > requestCounts[request.ip].resetTime

(***************************************************************************)
(* NetworkGraph: graphData = useMemo(..., [relationships, minDensity])     *)
(***************************************************************************)
\* nodeMap keys in insertion order: actor, then target, of each relationship
RECURSIVE NodeIds(_, _)
NodeIds(relationships, seen) ==
  IF relationships = <<>> THEN seen
  ELSE LET rel  == Head(relationships)
           s1   == IF \E i \in 1..Len(seen) : seen[i] = rel.actor
                   THEN seen ELSE Append(seen, rel.actor)
           s2   == IF \E i \in 1..Len(s1) : s1[i] = rel.target
                   THEN s1 ELSE Append(s1, rel.target)
       IN NodeIds(Tail(relationships), s2)

\* node.val: 1 on creation, += 1 on every further appearance as actor or target
NodeVal(relationships, id) ==
  Cardinality({i \in 1..Len(relationships) : relationships[i].actor = id})
    + Cardinality({i \in 1..Len(relationships) : relationships[i].target = id})

\* edgeMap values in insertion order, keyed by actor|||target, with their count
RECURSIVE GraphLinks(_, _)
GraphLinks(relationships, links) ==
  IF relationships = <<>> THEN links
  ELSE LET rel == Head(relationships)
           hit == {i \in 1..Len(links) :
                     links[i].source = rel.actor /\ links[i].target = rel.target}
       IN GraphLinks(Tail(relationships),
            IF hit = {}
            THEN Append(links, [source |-> rel.actor, target |-> rel.target,
                                action |-> rel.action, count |-> 1])
            ELSE [i \in 1..Len(links) |->
                    IF i \in hit THEN [links[i] EXCEPT !.count = @ + 1] ELSE links[i]])

\* breadth-first search over the undirected adjacency of the links
RECURSIVE GraphBfs(_, _, _, _)
GraphBfs(links, distances, frontier, d) ==
  LET ends == {links[i].source : i \in 1..Len(links)} \cup {links[i].target : i \in 1..Len(links)}
      reached == {n \in ends \ DOMAIN distances :
                    \E i \in 1..Len(links) :
                      \/ links[i].source \in frontier /\ links[i].target = n
                      \/ links[i].target \in frontier /\ links[i].source = n}
  IN IF reached = {} THEN distances
     ELSE GraphBfs(links, [n \in reached |-> d + 1] @@ distances, reached, d + 1)

\* distances from the reference entity, set only when it is in nodeMap
GraphDistances(relationships) ==
  IF \E i \in 1..Len(NodeIds(relationships, <<>>)) :
       NodeIds(relationships, <<>>)[i] = EPSTEIN_NAME
  THEN GraphBfs(GraphLinks(relationships, <<>>), (EPSTEIN_NAME :> 0), {EPSTEIN_NAME}, 0)
  ELSE EmptyMap

RECURSIVE SumVals(_, _)
SumVals(relationships, ids) ==
  IF ids = {} THEN 0
  ELSE LET id == CHOOSE x \in ids : TRUE
       IN NodeVal(relationships, id) + SumVals(relationships, ids \ {id})

\* nodesToKeep: the reference entity always, and every node with a distance
\* whose val >= averageByHop(hop) * (minDensity / 100)
NodesToKeep(relationships, minDensity) ==
  LET distances == GraphDistances(relationships)
      atHop(h)  == {n \in DOMAIN distances : distances[n] = h}
  IN {EPSTEIN_NAME} \cup
     {n \in DOMAIN distances :
        NodeVal(relationships, n) * Cardinality(atHop(distances[n])) * 100
          >= SumVals(relationships, atHop(distances[n])) * minDensity}

\* links that keep every edge of edgeMap
GraphData_LinksUnfiltered(relationships, minDensity) ==
  LET ids  == NodeIds(relationships, <<>>)
      keep == NodesToKeep(relationships, minDensity)
      kept(id) == id \in keep
  IN [nodes |-> [i \in 1..Len(SelectSeq(ids, kept)) |->
                   [id |-> SelectSeq(ids, kept)[i],
                    val |-> NodeVal(relationships, SelectSeq(ids, kept)[i])]],
      links |-> GraphLinks(relationships, <<>>)]

\* the memoized { nodes, links: filteredLinks }
GraphData(relationships, minDensity) ==
  LET ids  == NodeIds(relationships, <<>>)
      keep == NodesToKeep(relationships, minDensity)
      kept(id) == id \in keep
      bothKept(link) == link.source \in keep /\ link.target \in keep
  IN [nodes |-> [i \in 1..Len(SelectSeq(ids, kept)) |->
                   [id |-> SelectSeq(ids, kept)[i],
                    val |-> NodeVal(relationships, SelectSeq(ids, kept)[i])]],
      links |-> SelectSeq(GraphLinks(relationships, <<>>), bothKept)]

(***************************************************************************)
(* The browser application: App state, its effects and the requests in     *)
(* flight.  The server answers every request from the unchanged store.     *)
(***************************************************************************)
DigitChar(d) == <<"0", "1", "2", "3", "4", "5", "6", "7", "8", "9">>[d + 1]

\* Number.prototype.toString() of a non-negative integer
RECURSIVE toString(_)
toString(n) ==
  IF n < 10 THEN <<DigitChar(n)>> ELSE Append(toString(n \div 10), DigitChar(n % 10))

\* Array.prototype.join(',')
RECURSIVE join(_)
join(parts) ==
  IF parts = <<>> THEN <<>>
  ELSE IF Len(parts) = 1 THEN parts[1]
  ELSE parts[1] \o <<",">> \o join(Tail(parts))

\* the URLSearchParams both fetchers build from the filters of the App
FetchParams(limit, a) ==
  Query(limit,
        join([i \in 1..Len(a.enabledClusterIds) |-> toString(a.enabledClusterIds[i])]),
        join(a.enabledCategories),
        toString(a.yearRange[1]),
        toString(a.yearRange[2]),
        IF a.includeUndated THEN <<"t", "r", "u", "e">> ELSE False,
        trim(a.keywords),
        IF a.maxHops = <<>> THEN <<>> ELSE toString(a.maxHops[1]))

\* what the server answers to a request
ServerResponse(kind, name, q) ==
  IF kind = "relationships" THEN GlobalResponse(GlobalLocals(q))
  ELSE IF name = <<>> \/ Len(name) > MAX_NAME_LEN
       THEN [status |-> 400, error |-> "Invalid actor name"]
       ELSE ActorResponse(ActorLocals(name, q))

\* a request in flight, with the response that is on its way
InFlightRequest(kind, name, q) ==
  [kind |-> kind, name |-> name, query |-> q, response |-> ServerResponse(kind, name, q)]

\* fetchRelationships(limit, ...) as called by loadData
fetchRelationships(a) ==
  InFlightRequest("relationships", <<>>, FetchParams(toString(a.limit), a))

\* fetchActorRelationships(selectedActor, ...)
fetchActorRelationships(a) ==
  InFlightRequest("actor", a.selectedActor[1], FetchParams(<<>>, a))

\* GET /api/tag-clusters and the categories of GET /api/stats
TagClusters == <<[id |-> 1], [id |-> 2]>>

StatsCategories == <<Court, Documents["d1"]>>

\* useEffect(..., [limit, ..., keywords, maxHops, tagClusters.length]) with loadData
\* up to its await
LoadDataEffect(ui) ==
  IF Len(ui.app.tagClusters) > 0
  THEN [app |-> [ui.app EXCEPT !.loading = TRUE],
        pending |-> ui.pending (+) SetToBag({fetchRelationships(ui.app)})]
  ELSE ui

\* useEffect(..., [selectedActor, ..., keywords, maxHops]) up to its await
ActorEffect(ui) ==
  IF ui.app.selectedActor = <<>>
  THEN [app |-> [ui.app EXCEPT !.actorRelationships = <<>>, !.actorTotalBeforeFilter = 0],
        pending |-> ui.pending]
  ELSE [app |-> ui.app,
        pending |-> ui.pending (+) SetToBag({fetchActorRelationships(ui.app)})]

\* the render that follows the state updates, with the memoized graphData
Render(ui) ==
  /\ BagCardinality(ui.pending) <= MaxInFlight
  /\ app' = ui.app
  /\ pending' = ui.pending
  /\ graphData' = GraphData(ui.app.relationships, ui.app.minDensity)
  /\ UNCHANGED <<community, store, limiter, request, locals, response>>

\* loadTagClusters resolves: setTagClusters, setEnabledClusterIds
TagClustersLoaded ==
  /\ app.tagClusters = <<>>
  /\ Render(ActorEffect(LoadDataEffect(
       [app |-> [app EXCEPT !.tagClusters = TagClusters,
                            !.enabledClusterIds = [i \in 1..Len(TagClusters) |-> TagClusters[i].id]],
        pending |-> pending])))

\* the keyword box: setKeywords(k)
SetKeywords(k) ==
  /\ k # app.keywords
  /\ Render(ActorEffect(LoadDataEffect(
       [app |-> [app EXCEPT !.keywords = k], pending |-> pending])))

\* handleActorClick(actorName): select, or deselect the selected actor
handleActorClick(actorName) ==
  Render(ActorEffect(
    [app |-> [app EXCEPT !.selectedActor =
                IF app.selectedActor = <<actorName>> THEN <<>> ELSE <<actorName>>],
     pending |-> pending]))

\* the density slider: setMinDensity(m)
SetMinDensity(m) ==
  /\ m # app.minDensity
  /\ Render([app |-> [app EXCEPT !.minDensity = m], pending |-> pending])

\* the await of loadData settles: setStats, setRelationships,
\* setTotalBeforeLimit, finally setLoading(false); the stats effect enables
\* all categories the first time
LoadDataSettles(r, ok) ==
  /\ r \in BagToSet(pending)
  /\ r.kind = "relationships"
  /\ LET rest == pending (-) SetToBag({r})
         resp == r.response
     IN IF ok /\ resp.status = 200
        THEN LET a == [app EXCEPT !.relationships = resp.relationships,
                                  !.totalBeforeLimit = resp.totalBeforeLimit,
                                  !.loading = FALSE]
             IN IF Len(a.enabledCategories) = 0
                THEN Render(ActorEffect(LoadDataEffect(
                       [app |-> [a EXCEPT !.enabledCategories = StatsCategories],
                        pending |-> rest])))
                ELSE Render([app |-> a, pending |-> rest])
        ELSE Render([app |-> [app EXCEPT !.loading = FALSE], pending |-> rest])

\* the await of loadActorRelationships settles
ActorRequestSettles(r, ok) ==
  /\ r \in BagToSet(pending)
  /\ r.kind = "actor"
  /\ LET rest == pending (-) SetToBag({r})
         resp == r.response
     IN IF ok /\ resp.status = 200
        THEN Render([app |-> [app EXCEPT !.actorRelationships = resp.relationships,
                                         !.actorTotalBeforeFilter = resp.totalBeforeFilter],
                     pending |-> rest])
        ELSE Render([app |-> [app EXCEPT !.actorRelationships = <<>>,
                                         !.actorTotalBeforeFilter = 0],
                     pending |-> rest])

UiFacts ==
  << Fact("d1", <<2000>>, EPSTEIN_NAME, Met, NameA, <<>>, <<1>>),
     Fact("d1", <<2001>>, EPSTEIN_NAME, Met, NameC, <<>>, <<1>>),
     Fact("d2", <<2002>>, NameA, <<"x">>, NameB, <<>>, <<2>>),
     Fact("d2", <<2003>>, NameA, Met, NameB, <<>>, <<2>>) >>

UiKeywords == {<<>>, <<"x">>}

UiActors == {NameA, NameB}

MinDensities == {0, 50, 100, 200}

InitUi ==
  /\ rdf_triples = Rows(UiFacts)
  /\ entity_aliases = EmptyMap
  /\ documents = Documents
  /\ canonical_entities = HopDistanceFromPrincipal(rdf_triples, entity_aliases)
  /\ request = NoRequest
  /\ locals = NoLocals
  /\ response = NoResponse
  /\ requestCounts = EmptyMap
  /\ now = 0
  /\ InitClient
  /\ InitCommunity

NextUi ==
  \/ TagClustersLoaded
  \/ \E k \in UiKeywords : SetKeywords(k)
  \/ \E actorName \in UiActors : handleActorClick(actorName)
  \/ \E m \in MinDensities : SetMinDensity(m)
  \/ \E r \in BagToSet(pending), ok \in BOOLEAN : LoadDataSettles(r, ok)
  \/ \E r \in BagToSet(pending), ok \in BOOLEAN : ActorRequestSettles(r, ok)

SpecUi == InitUi /\ [][NextUi]_vars

InFlight(kind) == {r \in BagToSet(pending) : r.kind = kind}

\* C28: once every neighborhood request has completed, the displayed
\* actorRelationships and actorTotalBeforeFilter are those of the response to
\* the request for the selected actor and the current filters (or nothing,
\* when that request failed), and are empty / 0 when no actor is selected
C28_NoStaleNeighborhood ==
  InFlight("actor") = {} =>
    IF app.selectedActor = <<>>
    THEN app.actorRelationships = <<>> /\ app.actorTotalBeforeFilter = 0
    ELSE \/ app.actorRelationships = <<>> /\ app.actorTotalBeforeFilter = 0
         \/ LET resp == fetchActorRelationships(app).response
            IN /\ resp.status = 200
               /\ app.actorRelationships = resp.relationships
               /\ app.actorTotalBeforeFilter = resp.totalBeforeFilter

\* C29: loading is true whenever a request started by loadData is in flight,
\* and false once all of them have completed
C29_LoadingFlag ==
  /\ InFlight("relationships") # {} => app.loading
  /\ (app.tagClusters # <<>> /\ InFlight("relationships") = {}) => ~app.loading

(***************************************************************************)
(* The graph of an arbitrary response                                      *)
(***************************************************************************)
GraphFactPool ==
  { Fact("d1", <<>>, EPSTEIN_NAME, Met, NameA, <<>>, <<1>>),
    Fact("d1", <<>>, NameA, Met, EPSTEIN_NAME, <<>>, <<1>>),
    Fact("d2", <<>>, NameA, <<"x">>, NameB, <<>>, <<2>>),
    Fact("d2", <<>>, NameB, <<"x">>, NameC, <<>>, <<2>>),
    Fact("d2", <<>>, NameC, <<"x">>, NameC, <<>>, <<2>>) }

\* setRelationships(relationshipsResponse.relationships) with the response of
\* any store, and the render that follows
ReceiveRelationships(facts) ==
  Render([app |-> [app EXCEPT
                     !.relationships = [i \in 1..Len(facts) |-> GlobalRelationship(Rows(facts)[i])],
                     !.totalBeforeLimit = Len(facts),
                     !.loading = FALSE],
          pending |-> pending])

NextGraph ==
  \/ \E facts \in FactSeqs(GraphFactPool, MaxGraphRelationships) : ReceiveRelationships(facts)
  \/ \E m \in MinDensities : SetMinDensity(m)

SpecGraph == InitUi /\ [][NextGraph]_vars

\* C30: every link of graphData.links has its source and its target among
\* graphData.nodes, for every relationships input and every minDensity,
\* also when the reference entity is not in the input
C30_NoDanglingLinks ==
  \A i \in 1..Len(graphData.links) :
    /\ \E j \in 1..Len(graphData.nodes) : graphData.nodes[j].id = graphData.links[i].source
    /\ \E j \in 1..Len(graphData.nodes) : graphData.nodes[j].id = graphData.links[i].target

\* a rendered graph from which the density threshold removed a node and the
\* link to it, while other links remain
C30_Witness ==
  /\ graphData = GraphData(app.relationships, app.minDensity)
  /\ Len(graphData.links) > 0
  /\ Len(graphData.links) < Len(GraphLinks(app.relationships, <<>>))
  /\ Len(graphData.nodes) < Len(NodeIds(app.relationships, <<>>))

====
